---- MODULE Spec2Model ----
(***************************************************************************)
(* Example generation of skai (src/skai/generate_examples.py): the blank   *)
(* detector, the center crop, the alignment of the after image, the        *)
(* per-group assembly of GenerateExamplesFn.process and the projection of  *)
(* the full examples to the small examples.                                *)
(*                                                                         *)
(* An image is a record [rows, cols, px]: the numpy shape is               *)
(* (rows, cols, 3) and px[r][c] is the pixel <<R, G, B>> at row r, column  *)
(* c (1-based here, 0-based in the source).                                *)
(***************************************************************************)
EXTENDS Integers, Sequences, FiniteSets, Bags, TLC

(***************************************************************************)
(* Bounds of the model.                                                    *)
(***************************************************************************)
\* large_patch_size of the model (256 in production)
LargePatchSize == 3
\* example_patch_size of the model (64 in production)
ExamplePatchSize == 2
\* fragments collected over one run, all groups together
MaxFragments == 4
\* largest row and column count of the images of the pure-function checks
MaxDim == 2
\* largest row and column count of the before images of the alignment checks
MaxAlignDim == 2
\* examples handed to run_inference
MaxExamples == 4
\* largest batch_size of run_inference
MaxBatchSize == 3
\* workers that run the inference, each with its own copy of the DoFn
NumWorkers == 2
\* largest batch handed to TF2InferenceModel.predict_scores
MaxTF2Batch == 2
\* image_size of the TF2InferenceModel
ImageSize == 2
\* rows of the labels file
MaxRows == 3
\* rows and columns of the images handed to _center_crop on its own
MaxCropDim == 4

(***************************************************************************)
(* Program constants.                                                      *)
(***************************************************************************)
\* _BLANK_THRESHOLD = 0.25, kept as the fraction 1/4
_BLANK_THRESHOLD_NUM == 1
_BLANK_THRESHOLD_DEN == 4
\* _MAX_DISPLACEMENT (30 in production), in pixels of the model
_MAX_DISPLACEMENT == 1
\* channels of an RGB image
Channels == 3

(***************************************************************************)
(* numpy arrays of shape (rows, cols, 3)                                   *)
(***************************************************************************)
Min(a, b) == IF a < b THEN a ELSE b
Max(a, b) == IF a > b THEN a ELSE b

\* image.size
Size(image) == image.rows * image.cols * Channels

\* The index range [lo, hi) of a Python slice start:stop over a dimension of
\* length len: negative bounds count from the end, all bounds are clamped.
PyBound(len, k) == IF k < 0 THEN Max(len + k, 0) ELSE Min(k, len)
PyLo(len, start, stop) == PyBound(len, start)
PyHi(len, start, stop) == Max(PyBound(len, start), PyBound(len, stop))

\* image[r0:r1, c0:c1, :]
Slice(image, r0, r1, c0, c1) ==
  LET rlo == PyLo(image.rows, r0, r1)
      rhi == PyHi(image.rows, r0, r1)
      clo == PyLo(image.cols, c0, c1)
      chi == PyHi(image.cols, c0, c1)
  IN [rows |-> rhi - rlo,
      cols |-> chi - clo,
      px   |-> [r \in 1..(rhi - rlo) |->
                 [c \in 1..(chi - clo) |-> image.px[rlo + r][clo + c]]]]

\* np.zeros((n, n, 3), dtype=np.uint8)
Zeros(n) ==
  [rows |-> n, cols |-> n,
   px |-> [r \in 1..n |-> [c \in 1..n |-> <<0, 0, 0>>]]]

(***************************************************************************)
(* _mostly_blank (generate_examples.py:99-117)                             *)
(***************************************************************************)
\* The function f as a table: every value is computed once.
Table(f) == CHOOSE g \in {f} : TRUE

MaxOfSet(S) == CHOOSE m \in S : \A x \in S : m >= x

\* image.max(axis=0): the maximum over the FIRST axis of the array, which is
\* the row axis of a (rows, cols, 3) image; the result has shape (cols, 3).
MaxAxis0(image) ==
  [c \in 1..image.cols |->
    [k \in 1..Channels |->
      MaxOfSet({image.px[r][c][k] : r \in 1..image.rows})]]

\* np.count_nonzero(flattened)
CountNonzero(flattened) ==
  Cardinality({ck \in (DOMAIN flattened) \X (1..Channels) :
                 flattened[ck[1]][ck[2]] # 0})

_mostly_blank(image) ==
  IF Size(image) = 0
    THEN FALSE
    ELSE LET flattened     == MaxAxis0(image)
             flattened_size == image.cols * Channels
             num_non_blank == CountNonzero(flattened)
         IN  _BLANK_THRESHOLD_DEN * (flattened_size - num_non_blank)
               >= _BLANK_THRESHOLD_NUM * flattened_size

(***************************************************************************)
(* _center_crop (generate_examples.py:120-134)                             *)
(***************************************************************************)
\* a variant that crops at the corner of the image
_center_crop_corner(image, crop_size) ==
  Slice(image, 0, crop_size, 0, crop_size)

_center_crop(image, crop_size) ==
  LET i == (image.rows \div 2) - (crop_size \div 2)
      j == (image.cols \div 2) - (crop_size \div 2)
  IN  Slice(image, i, i + crop_size, j, j + crop_size)

(***************************************************************************)
(* align_after_image (generate_examples.py:68-96) and the two OpenCV       *)
(* calls it makes                                                          *)
(***************************************************************************)
\* cv2.cvtColor(image, cv2.COLOR_RGB2GRAY) on uint8: the fixed-point form of
\* 0.299 R + 0.587 G + 0.114 B, rounded.
_to_grayscale(image) ==
  [r \in 1..image.rows |->
    [c \in 1..image.cols |->
      (9798 * image.px[r][c][1] + 19235 * image.px[r][c][2]
         + 3735 * image.px[r][c][3] + 16384) \div 32768]]

\* sum of f[1], ..., f[n]
RECURSIVE SumTo(_, _)
SumTo(n, f) == IF n = 0 THEN 0 ELSE f[n] + SumTo(n - 1, f)

\* cv2.matchTemplate(image, templ, TM_CCOEFF_NORMED) at the offset (i, j)
\* (0-based): the score is num / sqrt(den); a window without variance
\* scores exactly 0. Both images are gray, h x w is the template's shape.
\* The common factor of the template's variance is left out of den.
\* I is the window of the image and T the template, both as sequences of
\* n pixels.
Correlation(n, sumI, sumT, sumII, sumTI) ==
  IF n * sumII - sumI * sumI = 0 THEN [num |-> 0, den |-> 1]
  ELSE [num |-> n * sumTI - sumT * sumI, den |-> n * sumII - sumI * sumI]

WindowScore(n, I, T) ==
  Correlation(n, SumTo(n, I), SumTo(n, T),
              SumTo(n, [k \in 1..n |-> I[k] * I[k]]),
              SumTo(n, [k \in 1..n |-> T[k] * I[k]]))

MatchScore(gimage, gtempl, h, w, i, j) ==
  WindowScore(h * w,
    Table([k \in 1..(h * w) |->
            gimage[i + ((k - 1) \div w) + 1][j + ((k - 1) % w) + 1]]),
    Table([k \in 1..(h * w) |->
            gtempl[((k - 1) \div w) + 1][((k - 1) % w) + 1]]))

\* a.num / sqrt(a.den) > b.num / sqrt(b.den)
ScoreGreater(a, b) ==
  IF a.num > 0 /\ b.num <= 0 THEN TRUE
  ELSE IF a.num <= 0 /\ b.num > 0 THEN FALSE
  ELSE IF a.num > 0
    THEN a.num * a.num * b.den > b.num * b.num * a.den
    ELSE a.num * a.num * b.den < b.num * b.num * a.den

\* The template has no variance: OpenCV fills the result with 1.
FlatTemplate(gtempl, h, w) ==
  \A p \in (1..h) \X (1..w), q \in (1..h) \X (1..w) :
    gtempl[p[1]][p[2]] = gtempl[q[1]][q[2]]

\* The offsets (row, column), 0-based, of the windows of the template's
\* shape in the image.
Offsets(before_image, after_image) ==
  (0..(after_image.rows - before_image.rows))
    \X (0..(after_image.cols - before_image.cols))

\* cv2.matchTemplate(image, templ, TM_CCOEFF_NORMED): the score at every
\* offset.
matchTemplate(gimage, gtempl, h, w, offsets) ==
  IF FlatTemplate(gtempl, h, w)
    THEN [o \in offsets |-> [num |-> 1, den |-> 1]]
    ELSE [o \in offsets |-> MatchScore(gimage, gtempl, h, w, o[1], o[2])]

\* row-major order of the offsets
Earlier(o1, o2) == o1[1] < o2[1] \/ (o1[1] = o2[1] /\ o1[2] < o2[2])

\* a variant that takes the location of the minimum, cv2.minMaxLoc(result)[2]
minMaxLoc_min(result) ==
  CHOOSE o \in DOMAIN result :
    \A o2 \in DOMAIN result :
      /\ ~ScoreGreater(result[o], result[o2])
      /\ (Earlier(o2, o) => ScoreGreater(result[o2], result[o]))

\* cv2.minMaxLoc(result)[3] as (row, column), 0-based: the first maximum in
\* row-major order.
minMaxLoc(result) ==
  CHOOSE o \in DOMAIN result :
    \A o2 \in DOMAIN result :
      /\ ~ScoreGreater(result[o2], result[o])
      /\ (Earlier(o2, o) => ScoreGreater(result[o], result[o2]))

\* cv2.matchTemplate takes the smaller of its two arguments as the template:
\* it swaps them when the image is smaller than the template in a
\* dimension.
NeedSwap(image, templ) ==
  image.rows < templ.rows \/ image.cols < templ.cols

\* cv2.matchTemplate raises cv2.error when the image is smaller than the
\* template in one dimension and larger in the other.
matchTemplateRaises(image, templ) ==
  /\ NeedSwap(image, templ)
  /\ ~(image.rows <= templ.rows /\ image.cols <= templ.cols)

\* minMaxLoc of the result of matchTemplate(image, templ), with templ no
\* larger than image
MaxLocationIn(templ, image) ==
  minMaxLoc(Table(matchTemplate(Table(_to_grayscale(image)),
                                Table(_to_grayscale(templ)),
                                templ.rows, templ.cols,
                                Offsets(templ, image))))

MaxLocation(before_image, after_image) ==
  IF NeedSwap(after_image, before_image)
    THEN MaxLocationIn(after_image, before_image)
    ELSE MaxLocationIn(before_image, after_image)

\* a variant that reads the location as (i, j) where OpenCV gives (j, i)
CropAt_transposed(after_image, loc, rows, cols) ==
  Slice(after_image, loc[2], loc[2] + rows, loc[1], loc[1] + cols)

\* after_image[i:i + rows, j:j + cols, :] with loc = (i, j)
CropAt(after_image, loc, rows, cols) ==
  Slice(after_image, loc[1], loc[1] + rows, loc[2], loc[2] + cols)

AlignCrop(before_image, after_image) ==
  CropAt(after_image, MaxLocation(before_image, after_image),
         before_image.rows, before_image.cols)

(***************************************************************************)
(* Examples (tf.train.Example): a map from feature names to values         *)
(***************************************************************************)
\* tf.io.encode_png(image): a lossless container of the shape and of the
\* pixel data in row-major order.
encode_png(image) ==
  [height |-> image.rows,
   width  |-> image.cols,
   data   |-> [n \in 1..Size(image) |->
                image.px[((n - 1) \div (image.cols * Channels)) + 1]
                        [(((n - 1) \div Channels) % image.cols) + 1]
                        [((n - 1) % Channels) + 1]]]

\* pickle.dumps((longitude, latitude, before_image_id, after_image_id)):
\* the four values in this order. hashlib.md5(...).hexdigest(): a digest of
\* exactly the serialized bytes, free of collisions on the inputs of the
\* model.
_make_example_id(longitude, latitude, before_image_id, after_image_id) ==
  LET serialized == [longitude       |-> longitude,
                     latitude        |-> latitude,
                     before_image_id |-> before_image_id,
                     after_image_id  |-> after_image_id]
  IN  [md5 |-> serialized]

LargeImageFeatures == {"pre_image_png_large", "post_image_png_large"}

\* a variant that deletes the large images of its argument, without a copy
_remove_large_images_in_place(example) ==
  [new_example |-> [name \in (DOMAIN example) \ LargeImageFeatures |->
                     example[name]],
   example     |-> [name \in (DOMAIN example) \ LargeImageFeatures |->
                     example[name]]]

\* _remove_large_images (lines 355-360): the copy without the two large
\* images, and the argument as the call leaves it.
_remove_large_images(example) ==
  [new_example |-> [name \in (DOMAIN example) \ LargeImageFeatures |->
                     example[name]],
   example     |-> example]

(***************************************************************************)
(* Inputs of the model: patches, source ids and scalar features            *)
(***************************************************************************)
Black == <<0, 0, 0>>
Grey  == <<1, 1, 1>>
White == <<2, 2, 2>>

\* A patch with one bright corner: its center crop is not blank, and it
\* matches an image at one offset only.
Tex(n) ==
  [rows |-> n, cols |-> n,
   px |-> [r \in 1..n |-> [c \in 1..n |->
            IF r = 1 /\ c = 1 THEN White ELSE Grey]]]

\* A patch that is black but for its last row and its last column.
Edge(n) ==
  [rows |-> n, cols |-> n,
   px |-> [r \in 1..n |-> [c \in 1..n |->
            IF r = n \/ c = n THEN Grey ELSE Black]]]

\* A patch without any black pixel and without texture.
Bright(n) ==
  [rows |-> n, cols |-> n,
   px |-> [r \in 1..n |-> [c \in 1..n |-> White]]]

\* A black image of n + 2 * _MAX_DISPLACEMENT rows and columns that holds
\* core at the offset (off, off).
Embed(core, off) ==
  LET n == core.rows + 2 * _MAX_DISPLACEMENT
  IN  [rows |-> n, cols |-> n,
       px |-> [r \in 1..n |-> [c \in 1..n |->
                IF /\ r > off /\ r <= off + core.rows
                   /\ c > off /\ c <= off + core.cols
                  THEN core.px[r - off][c - off] ELSE Black]]]

\* The size of the after patches: with before images the patch has a
\* border of _MAX_DISPLACEMENT pixels (_generate_examples, lines 393-400).
PatchSize(use) ==
  IF use THEN LargePatchSize + 2 * _MAX_DISPLACEMENT ELSE LargePatchSize

\* The after patch read for a core.
AfterPatch(use, core, off) == IF use THEN Embed(core, off) ELSE core

\* _FeatureUnion: each attribute is <<>> (None) or <<value>>.
ScalarFragment(longitude, latitude, label) ==
  [scalar_features |-> <<[coordinates |-> <<longitude, latitude>>,
                          label       |-> <<label>>]>>,
   before_image    |-> <<>>,
   after_image     |-> <<>>]

BeforeFragment(id, image) ==
  [scalar_features |-> <<>>,
   before_image    |-> <<[id |-> id, image |-> image]>>,
   after_image     |-> <<>>]

AfterFragment(id, image) ==
  [scalar_features |-> <<>>,
   before_image    |-> <<>>,
   after_image     |-> <<[id |-> id, image |-> image]>>]

ScalarFragments ==
  {ScalarFragment(1, 1, 0), ScalarFragment(1, 1, 1), ScalarFragment(2, 1, 0)}

\* Without before images the pipeline reads no before patch; one is kept to
\* show that process ignores it.
BeforeFragments(use) ==
  IF use
    THEN {BeforeFragment("b0", Tex(LargePatchSize)),
          BeforeFragment("b1", Edge(LargePatchSize))}
    ELSE {BeforeFragment("b0", Tex(LargePatchSize))}

AfterFragments(use) ==
  {AfterFragment("a0", AfterPatch(use, Tex(LargePatchSize), 0)),
   AfterFragment("a0", Bright(PatchSize(use))),
   AfterFragment("a1", AfterPatch(use, Tex(LargePatchSize),
                                  2 * _MAX_DISPLACEMENT)),
   AfterFragment("a1", AfterPatch(use, Edge(LargePatchSize),
                                  _MAX_DISPLACEMENT))}

FragmentTable ==
  [use \in BOOLEAN |->
    ScalarFragments \cup BeforeFragments(use) \cup AfterFragments(use)]

Fragments(use) == FragmentTable[use]

\* The alignments of the patches above, each computed once.
AlignCache ==
  [pair \in {<<b, a.after_image[1].image>> :
               b \in {Tex(LargePatchSize), Edge(LargePatchSize),
                      Bright(LargePatchSize)},
               a \in AfterFragments(TRUE)} |->
    AlignCrop(pair[1], pair[2])]

\* table[key] if the table holds the key, value otherwise
Lookup(table, key, value) ==
  IF key \in DOMAIN table THEN table[key] ELSE value

align_after_image(before_image, after_image) ==
  Lookup(AlignCache, <<before_image, after_image>>,
         AlignCrop(before_image, after_image))

\* utils.encode_coordinates: the key of a coordinate, one per coordinate.
encode_coordinates(longitude, latitude) ==
  [encoded |-> <<longitude, latitude>>]

(***************************************************************************)
(* State                                                                   *)
(***************************************************************************)
VARIABLES
  use_before_image,          \* GenerateExamplesFn._use_before_image
  example_count,             \* counter generated_examples_count
  bad_example_count,         \* counter rejected_examples_count
  before_patch_blank_count,  \* counter before_patch_blank_count
  after_patch_blank_count,   \* counter after_patch_blank_count
  pending,                   \* fragments grouped under the next key so far
  collected,                 \* fragments read so far, all groups together
  large_examples,            \* bag of the examples process has emitted
  to_small,                  \* emitted examples the small stage has not seen
  small_examples,            \* bag of the reduced examples
  last,                      \* the latest call of process: input and effects
  worker_state,              \* the DoFn instance of each worker of the ParDo
  claimed,                   \* the groups the workers have taken so far
  arg,                       \* input of the function under check
  ret,                       \* its result, "none" before the call
  batch_size,                \* run_inference: the argument batch_size
  examples,                  \* run_inference: the input examples
  unread,                    \* input examples BatchElements has not read
  buffer,                    \* BatchElements._batch of each worker
  batches,                   \* bag of the batches on their way to the ParDo
  setup_done,                \* workers whose DoFn.setup has run
  model_prepared,            \* TestModel._model_prepared of each worker
  calls,                     \* bag of the calls of predict_scores so far
  scored,                    \* bag of the examples run_inference has put out
  examples_processed,        \* counter examples_processed
  batches_processed          \* counter batches_processed

vars == <<use_before_image, example_count, bad_example_count,
          before_patch_blank_count, after_patch_blank_count, pending,
          collected, large_examples, to_small, small_examples, last,
          worker_state, claimed,
          arg, ret, batch_size, examples, unread, buffer, batches, setup_done,
          model_prepared, calls, scored, examples_processed,
          batches_processed>>

inference_vars == <<batch_size, examples, unread, buffer, batches, setup_done,
                    model_prepared, calls, scored, examples_processed,
                    batches_processed>>

pipeline_vars == <<use_before_image, example_count, bad_example_count,
                   before_patch_blank_count, after_patch_blank_count,
                   pending, collected, large_examples, to_small,
                   small_examples, last, worker_state, claimed>>

worker_vars == <<worker_state, claimed>>

Counters ==
  [example      |-> example_count,
   bad          |-> bad_example_count,
   before_blank |-> before_patch_blank_count,
   after_blank  |-> after_patch_blank_count]

(***************************************************************************)
(* GenerateExamplesFn._create_example (lines 188-243)                      *)
(***************************************************************************)
\* a variant that leaves the after image as it was read
AlignedAfter_unaligned(before_image, after_image) == after_image

\* lines 209-210: the after image the rest of the method works on
AlignedAfter(before_image, after_image) ==
  IF use_before_image
    THEN align_after_image(before_image, after_image)
    ELSE after_image

\* line 211
BeforeCrop(before_image) == _center_crop(before_image, ExamplePatchSize)

\* line 212: the images handed to _mostly_blank for the before patch, and
\* whether the pair is rejected for it
BeforeBlankArgs(before_crop) ==
  IF use_before_image THEN <<before_crop>> ELSE <<>>

\* a variant that never rejects a pair for its before patch
BeforeRejected_never(before_crop) == FALSE

BeforeRejected(before_crop) ==
  use_before_image /\ _mostly_blank(before_crop)

\* line 216
AfterCrop(after_image) == _center_crop(after_image, ExamplePatchSize)

\* line 217
AfterBlankArgs(after_crop) == <<after_crop>>

\* a variant that never rejects a pair for its after patch
AfterRejected_never(after_crop) == FALSE

AfterRejected(after_crop) == _mostly_blank(after_crop)

\* a variant that hashes the label in the place of the latitude
ExampleId_label(scalar_features, before_image_id, after_image_id) ==
  _make_example_id(scalar_features["coordinates"][1],
                   scalar_features["label"][1],
                   before_image_id, after_image_id)

\* lines 227-229
ExampleId(scalar_features, before_image_id, after_image_id) ==
  LET longitude == scalar_features["coordinates"][1]
      latitude  == scalar_features["coordinates"][2]
  IN  _make_example_id(longitude, latitude, before_image_id, after_image_id)

\* The Example of lines 222-243: eight fixed features and then every scalar
\* feature under its own name.
BuildExample(encoded_coordinates, before_image_id, before_image, before_crop, after_image_id, after_image, after_crop, scalar_features) ==
  LET fixed == [encoded_coordinates  |-> encoded_coordinates,
                example_id           |-> ExampleId(scalar_features,
                                                   before_image_id,
                                                   after_image_id),
                pre_image_png_large  |-> encode_png(before_image),
                pre_image_png        |-> encode_png(before_crop),
                pre_image_id         |-> before_image_id,
                post_image_png_large |-> encode_png(after_image),
                post_image_png       |-> encode_png(after_crop),
                post_image_id        |-> after_image_id]
  IN  [name \in (DOMAIN fixed) \cup (DOMAIN scalar_features) |->
        IF name \in DOMAIN scalar_features
          THEN scalar_features[name] ELSE fixed[name]]

\* a variant that looks at the after patch first
CreateFromCrops_after_first(encoded_coordinates, before_image_id, before_image, before_crop, after_image_id, after_image, after_crop, scalar_features) ==
  IF AfterRejected(after_crop)
    THEN [status |-> "after_blank", example |-> <<>>,
          blank_args |-> AfterBlankArgs(after_crop),
          aligned |-> use_before_image]
  ELSE IF BeforeRejected(before_crop)
    THEN [status |-> "before_blank", example |-> <<>>,
          blank_args |-> AfterBlankArgs(after_crop)
                           \o BeforeBlankArgs(before_crop),
          aligned |-> use_before_image]
  ELSE [status |-> "ok",
        example |-> <<BuildExample(encoded_coordinates, before_image_id,
                                   before_image, before_crop,
                                   after_image_id, after_image,
                                   after_crop, scalar_features)>>,
        blank_args |-> AfterBlankArgs(after_crop)
                         \o BeforeBlankArgs(before_crop),
        aligned |-> use_before_image]

\* The result names the rejection ("before_blank", "after_blank") or "ok",
\* the Example returned (<<>> for None), the images handed to
\* _mostly_blank in call order and whether align_after_image was called.
\* lines 212-243, on the two crops of lines 211 and 216
CreateFromCrops(encoded_coordinates, before_image_id, before_image, before_crop, after_image_id, after_image, after_crop, scalar_features) ==
  IF BeforeRejected(before_crop)
    THEN [status |-> "before_blank", example |-> <<>>,
          blank_args |-> BeforeBlankArgs(before_crop),
          aligned |-> use_before_image]
  ELSE IF AfterRejected(after_crop)
    THEN [status |-> "after_blank", example |-> <<>>,
          blank_args |-> BeforeBlankArgs(before_crop)
                           \o AfterBlankArgs(after_crop),
          aligned |-> use_before_image]
  ELSE [status |-> "ok",
        example |-> <<BuildExample(encoded_coordinates, before_image_id,
                                   before_image, before_crop,
                                   after_image_id, after_image,
                                   after_crop, scalar_features)>>,
        blank_args |-> BeforeBlankArgs(before_crop)
                         \o AfterBlankArgs(after_crop),
        aligned |-> use_before_image]

\* lines 211-243, on the after image of lines 209-210
CreateFromAligned(encoded_coordinates, before_image_id, before_image, after_image_id, after_image, scalar_features) ==
  CreateFromCrops(encoded_coordinates, before_image_id, before_image,
                  Table(BeforeCrop(before_image)), after_image_id,
                  after_image, Table(AfterCrop(after_image)),
                  scalar_features)

_create_example(encoded_coordinates, before_image_id, before_image, after_image_id, after_image, scalar_features) ==
  CreateFromAligned(encoded_coordinates, before_image_id, before_image,
                    after_image_id,
                    Table(AlignedAfter(before_image, after_image)),
                    scalar_features)

(***************************************************************************)
(* GenerateExamplesFn.process (lines 245-293)                              *)
(***************************************************************************)
\* Truth value of an attribute of a _FeatureUnion: None and the empty dict
\* are false.
HasScalar(feature) ==
  feature.scalar_features # <<>> /\ DOMAIN feature.scalar_features[1] # {}
HasBefore(feature) == feature.before_image # <<>>
HasAfter(feature)  == feature.after_image # <<>>

\* dict.update
Update(d, e) ==
  [name \in (DOMAIN d) \cup (DOMAIN e) |->
    IF name \in DOMAIN e THEN e[name] ELSE d[name]]

\* The loop of lines 263-269 over features[1..k].
RECURSIVE ScalarsOf(_, _)
ScalarsOf(features, k) ==
  IF k = 0 THEN <<>>
  ELSE IF HasScalar(features[k])
    THEN Update(ScalarsOf(features, k - 1), features[k].scalar_features[1])
    ELSE ScalarsOf(features, k - 1)

RECURSIVE BeforeImagesOf(_, _)
BeforeImagesOf(features, k) ==
  IF k = 0 THEN <<>>
  ELSE IF ~HasScalar(features[k]) /\ HasBefore(features[k])
    THEN Append(BeforeImagesOf(features, k - 1), features[k].before_image[1])
    ELSE BeforeImagesOf(features, k - 1)

RECURSIVE AfterImagesOf(_, _)
AfterImagesOf(features, k) ==
  IF k = 0 THEN <<>>
  ELSE IF /\ ~HasScalar(features[k]) /\ ~HasBefore(features[k])
          /\ HasAfter(features[k])
    THEN Append(AfterImagesOf(features, k - 1), features[k].after_image[1])
    ELSE AfterImagesOf(features, k - 1)

\* a variant that looks for the before images first
GroupCheck_before_first(before_images, after_images) ==
  IF use_before_image /\ before_images = <<>> THEN "before"
  ELSE IF after_images = <<>> THEN "after"
  ELSE "pairs"

\* a variant without the check of the before images
GroupCheck_after_only(before_images, after_images) ==
  IF after_images = <<>> THEN "after" ELSE "pairs"

\* lines 271-280: "after" and "before" name the blank counter of a group
\* that is rejected as a whole, "pairs" lets the group through.
GroupCheck(before_images, after_images) ==
  IF after_images = <<>> THEN "after"
  ELSE IF use_before_image /\ before_images = <<>> THEN "before"
  ELSE "pairs"

\* a variant that counts a rejected group as rejected only
GroupRejectedInc_bad_only(counter) ==
  [example |-> 0, bad |-> 1, before_blank |-> 0, after_blank |-> 0]

\* lines 272-273 and 278-279: the increments of a rejected group
GroupRejectedInc(counter) ==
  [example      |-> 0,
   bad          |-> 1,
   before_blank |-> IF counter = "before" THEN 1 ELSE 0,
   after_blank  |-> IF counter = "after" THEN 1 ELSE 0]

\* a variant that keeps the collected before images in every mode
BeforeImagesUsed_collected(before_images) == before_images

\* lines 276-284: the before images the pairs are built from
BeforeImagesUsed(before_images) ==
  IF use_before_image THEN before_images
  ELSE <<[id |-> "", image |-> Zeros(LargePatchSize)]>>

\* a variant with the after images as the outer loop
Product_after_outer(nb, na) ==
  [p \in 1..(nb * na) |-> <<((p - 1) % nb) + 1, ((p - 1) \div nb) + 1>>]

\* a variant that pairs the images by position, as zip does
Product_zip(nb, na) ==
  [p \in 1..Min(nb, na) |-> <<p, p>>]

\* line 286-287: itertools.product(range(nb), range(na)), 1-based
Product(nb, na) ==
  [p \in 1..(nb * na) |-> <<((p - 1) \div na) + 1, ((p - 1) % na) + 1>>]

\* concatenation of the sequences results[1..k][field]
RECURSIVE Flatten(_, _, _)
Flatten(results, field, k) ==
  IF k = 0 THEN <<>>
  ELSE Flatten(results, field, k - 1) \o results[k][field]

CountStatus(results, status) ==
  Cardinality({k \in DOMAIN results : results[k].status = status})

\* a variant that counts the emitted Examples of a group as one
PairsInc_once(results) ==
  [example      |-> Min(1, CountStatus(results, "ok")),
   bad          |-> CountStatus(results, "before_blank")
                      + CountStatus(results, "after_blank"),
   before_blank |-> CountStatus(results, "before_blank"),
   after_blank  |-> CountStatus(results, "after_blank")]

\* lines 213-214, 218-219 and 292: the increments of the pairs of a group
PairsInc(results) ==
  [example      |-> CountStatus(results, "ok"),
   bad          |-> CountStatus(results, "before_blank")
                      + CountStatus(results, "after_blank"),
   before_blank |-> CountStatus(results, "before_blank"),
   after_blank  |-> CountStatus(results, "after_blank")]

\* The effects of process((example_id, features)): the Examples yielded in
\* order, the increments of the four counters, and what the call ran.
\* The effects of a group that is rejected as a whole (lines 271-280).
GroupRejected(check) ==
  [yielded |-> <<>>, pairs |-> <<>>, statuses |-> <<>>,
   blank_args |-> <<>>, aligned |-> 0, inc |-> GroupRejectedInc(check)]

\* The effects of the loop of lines 286-293: results[p] is what
\* _create_example returned for the pair pairs[p].
PairsYielded(pairs, results) ==
  [yielded    |-> Flatten(results, "example", Len(pairs)),
   pairs      |-> pairs,
   statuses   |-> [p \in DOMAIN pairs |-> results[p].status],
   blank_args |-> Flatten(results, "blank_args", Len(pairs)),
   aligned    |-> Cardinality({p \in DOMAIN pairs : results[p].aligned}),
   inc        |-> PairsInc(results)]

\* lines 286-293
ProcessPairs(example_id, scalar_features, before_images, after_images, pairs) ==
  PairsYielded(pairs,
    Table([p \in DOMAIN pairs |->
            _create_example(example_id,
                            before_images[pairs[p][1]].id,
                            before_images[pairs[p][1]].image,
                            after_images[pairs[p][2]].id,
                            after_images[pairs[p][2]].image,
                            scalar_features)]))

\* lines 282-293
ProcessImages(example_id, scalar_features, before_images, after_images) ==
  ProcessPairs(example_id, scalar_features, before_images, after_images,
               Product(Len(before_images), Len(after_images)))

\* lines 271-293, on what the loop of lines 263-269 has collected
ProcessGroup(example_id, scalar_features, before_images, after_images, check) ==
  [before_images |-> before_images, after_images |-> after_images,
   scalar_features |-> scalar_features]
  @@ (IF check # "pairs"
        THEN GroupRejected(check)
        ELSE ProcessImages(example_id, scalar_features,
                           BeforeImagesUsed(before_images), after_images))

\* The effects of process((example_id, features)): the Examples yielded in
\* order, the increments of the four counters, and what the call ran.
process(example_id, features) ==
  ProcessGroup(example_id,
               ScalarsOf(features, Len(features)),
               BeforeImagesOf(features, Len(features)),
               AfterImagesOf(features, Len(features)),
               GroupCheck(BeforeImagesOf(features, Len(features)),
                          AfterImagesOf(features, Len(features))))

(***************************************************************************)
(* The pipeline of _generate_examples (lines 421-434): grouping, the       *)
(* ParDo of GenerateExamplesFn and the Map of _remove_large_images         *)
(***************************************************************************)
RECURSIVE SeqToBag(_)
SeqToBag(seq) ==
  IF seq = <<>> THEN EmptyBag
  ELSE SetToBag({Head(seq)}) (+) SeqToBag(Tail(seq))

Workers == 1..NumWorkers

\* The inference pipeline has been handed nothing.
InferenceIdle ==
  /\ batch_size = 1
  /\ examples = <<>>
  /\ unread = <<>>
  /\ buffer = [w \in Workers |-> <<>>]
  /\ batches = EmptyBag
  /\ setup_done = [w \in Workers |-> FALSE]
  /\ model_prepared = [w \in Workers |-> FALSE]
  /\ calls = EmptyBag
  /\ scored = EmptyBag
  /\ examples_processed = 0
  /\ batches_processed = 0

NoCounts == [example |-> 0, bad |-> 0, before_blank |-> 0, after_blank |-> 0]

\* A DoFn instance between two calls of process, with its counters.
IdleWorker(counters) ==
  [counters |-> counters, busy |-> FALSE,
   example_id |-> encode_coordinates(0, 0), scalar_features |-> <<>>,
   before_images |-> <<>>, after_images |-> <<>>, pairs |-> <<>>, next |-> 0]

NoCall ==
  [called |-> FALSE, example_id |-> encode_coordinates(0, 0), features |-> <<>>,
   result |-> [before_images |-> <<>>, after_images |-> <<>>,
               scalar_features |-> <<>>, yielded |-> <<>>, pairs |-> <<>>,
               statuses |-> <<>>, blank_args |-> <<>>, aligned |-> 0,
               inc |-> [example |-> 0, bad |-> 0, before_blank |-> 0,
                        after_blank |-> 0]],
   prev |-> [example |-> 0, bad |-> 0, before_blank |-> 0,
             after_blank |-> 0]]

\* GenerateExamplesFn.__init__ (lines 173-186) and the empty streams.
InitPipeline ==
  /\ use_before_image \in BOOLEAN
  /\ example_count = 0
  /\ bad_example_count = 0
  /\ before_patch_blank_count = 0
  /\ after_patch_blank_count = 0
  /\ pending = <<>>
  /\ collected = 0
  /\ large_examples = EmptyBag
  /\ to_small = <<>>
  /\ small_examples = EmptyBag
  /\ last = NoCall
  /\ worker_state = [w \in Workers |-> IdleWorker(NoCounts)]
  /\ claimed = {}

Init ==
  /\ InitPipeline
  /\ InferenceIdle
  /\ arg = Zeros(0)
  /\ ret = "none"

\* Flatten and GroupByKey (lines 421-424) hand one more fragment to the
\* group of the next key.
Collect(feature) ==
  /\ collected < MaxFragments
  /\ to_small = <<>>
  /\ HasScalar(feature) =>
       \A k \in DOMAIN pending :
         HasScalar(pending[k]) =>
           pending[k].scalar_features[1]["coordinates"]
             = feature.scalar_features[1]["coordinates"]
  /\ pending' = Append(pending, feature)
  /\ collected' = collected + 1
  /\ UNCHANGED <<use_before_image, example_count, bad_example_count,
                 before_patch_blank_count, after_patch_blank_count,
                 large_examples, to_small, small_examples, last, arg, ret,
                 worker_vars, inference_vars>>

\* The key of a group: the encoded coordinates of its scalar features
\* (_coordinates_to_scalar_features, lines 344-352).
GroupKey(features) ==
  LET coordinates == ScalarsOf(features, Len(features))["coordinates"]
  IN  encode_coordinates(coordinates[1], coordinates[2])

\* The ParDo runs process on the group. Every key stems from a row of the
\* coordinates file, so its group holds the scalar features of that row
\* (lines 385-392).
Process ==
  /\ to_small = <<>>
  /\ \E k \in DOMAIN pending : HasScalar(pending[k])
  /\ \E result \in {process(GroupKey(pending), pending)} :
         /\ example_count' = example_count + result.inc.example
         /\ bad_example_count' = bad_example_count + result.inc.bad
         /\ before_patch_blank_count' =
              before_patch_blank_count + result.inc.before_blank
         /\ after_patch_blank_count' =
              after_patch_blank_count + result.inc.after_blank
         /\ large_examples' = large_examples (+) SeqToBag(result.yielded)
         /\ to_small' = to_small \o result.yielded
         /\ last' = [called |-> TRUE, example_id |-> GroupKey(pending),
                     features |-> pending, result |-> result,
                     prev |-> Counters]
  /\ pending' = <<>>
  /\ UNCHANGED <<use_before_image, collected, small_examples, arg, ret,
                 worker_vars, inference_vars>>

\* The Map of _remove_large_images (lines 429-432) takes the next example.
GenerateSmallExample ==
  /\ to_small # <<>>
  /\ \E removed \in {_remove_large_images(Head(to_small))} :
         /\ small_examples' =
              small_examples (+) SetToBag({removed.new_example})
         /\ large_examples' =
              (large_examples (-) SetToBag({Head(to_small)}))
                (+) SetToBag({removed.example})
  /\ to_small' = Tail(to_small)
  /\ UNCHANGED <<use_before_image, example_count, bad_example_count,
                 before_patch_blank_count, after_patch_blank_count,
                 pending, collected, last, arg, ret, worker_vars,
                 inference_vars>>

Next ==
  \/ \E feature \in Fragments(use_before_image) : Collect(feature)
  \/ Process
  \/ GenerateSmallExample

Spec == Init /\ [][Next]_vars

(***************************************************************************)
(* The ParDo of GenerateExamplesFn on several workers: every worker holds  *)
(* its own DoFn instance and its own cells of the four counters, takes     *)
(* groups one at a time and runs process on each, pair by pair; the        *)
(* runner adds the cells of the workers up.                                *)
(***************************************************************************)
\* a variant of inc() that stores the increment in the place of the sum
AddCounters_overwrite(counters, inc) == inc

\* Metrics.counter(...).inc() on the cells of one worker
AddCounters(counters, inc) ==
  [name \in DOMAIN counters |-> counters[name] + inc[name]]

\* process up to its loop (lines 259-284) on what lines 263-269 collected
BeginGroup(counters, example_id, scalar_features, before_images, after_images, check) ==
  IF check # "pairs"
    THEN IdleWorker(AddCounters(counters, GroupRejectedInc(check)))
    ELSE [counters |-> counters, busy |-> TRUE, example_id |-> example_id,
          scalar_features |-> scalar_features,
          before_images |-> BeforeImagesUsed(before_images),
          after_images |-> after_images,
          pairs |-> Product(Len(BeforeImagesUsed(before_images)),
                            Len(after_images)),
          next |-> 1]

\* the worker after one round of the loop of lines 286-293
AfterPair(state, result) ==
  IF state.next = Len(state.pairs)
    THEN IdleWorker(AddCounters(state.counters, PairsInc(<<result>>)))
    ELSE [state EXCEPT !.counters = AddCounters(@, PairsInc(<<result>>)),
                       !.next = @ + 1]

\* the call of _create_example of lines 288-290 for the pair state.next
CreateNext(state) ==
  _create_example(state.example_id,
                  state.before_images[state.pairs[state.next][1]].id,
                  state.before_images[state.pairs[state.next][1]].image,
                  state.after_images[state.pairs[state.next][2]].id,
                  state.after_images[state.pairs[state.next][2]].image,
                  state.scalar_features)

\* A group of GroupByKey: the key of the coordinates (k, 1), their scalar
\* features and the patches read at them.
WorkerGroup(k, images) ==
  [example_id |-> encode_coordinates(k, 1),
   features   |-> <<ScalarFragment(k, 1, 0)>> \o images]

WorkerGroups(use) ==
  {WorkerGroup(1, <<BeforeFragment("b0", Tex(LargePatchSize)),
                    BeforeFragment("b1", Edge(LargePatchSize)),
                    AfterFragment("a0", AfterPatch(use, Tex(LargePatchSize), 0)),
                    AfterFragment("a1", AfterPatch(use, Edge(LargePatchSize),
                                                   _MAX_DISPLACEMENT))>>),
   WorkerGroup(2, <<BeforeFragment("b0", Tex(LargePatchSize))>>),
   WorkerGroup(3, <<AfterFragment("a0", Bright(PatchSize(use)))>>),
   WorkerGroup(4, <<AfterFragment("a1", AfterPatch(use, Edge(LargePatchSize),
                                                   _MAX_DISPLACEMENT)),
                    BeforeFragment("b1", Edge(LargePatchSize))>>)}

\* arg is the output of GroupByKey: a set of groups with distinct keys.
InitWorkers ==
  /\ InitPipeline
  /\ InferenceIdle
  /\ arg \in SUBSET WorkerGroups(use_before_image)
  /\ ret = <<>>

\* Worker w is handed the group and runs process up to the first pair.
StartGroup(w, group) ==
  /\ group \notin claimed
  /\ ~worker_state[w].busy
  /\ claimed' = claimed \cup {group}
  /\ worker_state' =
       [worker_state EXCEPT ![w] =
         BeginGroup(@.counters, group.example_id,
                    ScalarsOf(group.features, Len(group.features)),
                    BeforeImagesOf(group.features, Len(group.features)),
                    AfterImagesOf(group.features, Len(group.features)),
                    GroupCheck(BeforeImagesOf(group.features,
                                              Len(group.features)),
                               AfterImagesOf(group.features,
                                             Len(group.features))))]
  /\ UNCHANGED <<use_before_image, example_count, bad_example_count,
                 before_patch_blank_count, after_patch_blank_count,
                 pending, collected, large_examples, to_small,
                 small_examples, last, arg, ret, inference_vars>>

\* Worker w runs one round of the loop of lines 286-293.
CreatePair(w) ==
  /\ worker_state[w].busy
  /\ \E result \in {CreateNext(worker_state[w])} :
       /\ large_examples' = large_examples (+) SeqToBag(result.example)
       /\ worker_state' =
            [worker_state EXCEPT ![w] = AfterPair(@, result)]
  /\ UNCHANGED <<use_before_image, example_count, bad_example_count,
                 before_patch_blank_count, after_patch_blank_count,
                 pending, collected, to_small, small_examples, last,
                 claimed, arg, ret, inference_vars>>

NextWorkers ==
  \/ \E w \in Workers : \E group \in arg : StartGroup(w, group)
  \/ \E w \in Workers : CreatePair(w)

SpecWorkers == InitWorkers /\ [][NextWorkers]_vars

(***************************************************************************)
(* _mostly_blank on its own: every image of at most MaxDim rows and        *)
(* columns over three pixel values                                         *)
(***************************************************************************)

BlankPixels == {Black, <<1, 0, 0>>, Grey}

InitBlank ==
  /\ InitPipeline
  /\ InferenceIdle
  /\ use_before_image = FALSE
  /\ arg \in UNION {{[rows |-> r, cols |-> c, px |-> px] :
                        px \in [1..r -> [1..c -> BlankPixels]]} :
                     r \in 0..MaxDim, c \in 0..MaxDim}
  /\ ret = "none"

MostlyBlankCall ==
  /\ ret = "none"
  /\ ret' = IF _mostly_blank(arg) THEN "True" ELSE "False"
  /\ UNCHANGED <<pipeline_vars, inference_vars, arg>>

NextBlank == MostlyBlankCall

SpecBlank == InitBlank /\ [][NextBlank]_vars

(***************************************************************************)
(* _center_crop on its own: images of at most MaxCropDim rows and columns  *)
(* and crop sizes up to one more                                           *)
(***************************************************************************)
\* An image whose pixel at row r, column c is <<r, c, 0>>.
Numbered(rows, cols) ==
  [rows |-> rows, cols |-> cols,
   px |-> [r \in 1..rows |-> [c \in 1..cols |-> <<r, c, 0>>]]]

\* An image with one white pixel, at its last row and last column.
Cornered(rows, cols) ==
  [rows |-> rows, cols |-> cols,
   px |-> [r \in 1..rows |-> [c \in 1..cols |->
            IF r = rows /\ c = cols THEN White ELSE Black]]]

\* The slice of line 134 never raises: numpy clamps its bounds.
CropOutcome(image, crop_size) ==
  [raised |-> FALSE, value |-> _center_crop(image, crop_size)]

InitCrop ==
  /\ InitPipeline
  /\ InferenceIdle
  /\ use_before_image = FALSE
  /\ arg \in {[image |-> image, crop_size |-> size] :
               image \in UNION {{Numbered(rows, cols), Cornered(rows, cols)} :
                                  rows \in 0..MaxCropDim,
                                  cols \in 0..MaxCropDim},
               size \in 0..(MaxCropDim + 1)}
  /\ ret = <<>>

CenterCropCall ==
  /\ ret = <<>>
  /\ ret' = <<CropOutcome(arg.image, arg.crop_size)>>
  /\ UNCHANGED <<pipeline_vars, inference_vars, arg>>

NextCrop == CenterCropCall

SpecCrop == InitCrop /\ [][NextCrop]_vars

(***************************************************************************)
(* align_after_image on its own: before images of at most MaxAlignDim rows *)
(* and columns, after images that embed them with a border of              *)
(* _MAX_DISPLACEMENT pixels, and after images that are not larger          *)
(***************************************************************************)
ImagesOf(r, c, pixels) ==
  {[rows |-> r, cols |-> c, px |-> px] : px \in [1..r -> [1..c -> pixels]]}

\* A grey patch with one white pixel in its last corner.
Dot(n) ==
  [rows |-> n, cols |-> n,
   px |-> [r \in 1..n |-> [c \in 1..n |->
            IF r = n /\ c = n THEN White ELSE Grey]]]

AlignBefores ==
  UNION {ImagesOf(r, c, {Black, White}) :
           r \in 1..MaxAlignDim, c \in 1..MaxAlignDim}
    \cup {Tex(MaxAlignDim), Dot(MaxAlignDim)}

\* The image of core.rows + 2 * _MAX_DISPLACEMENT rows and
\* core.cols + 2 * _MAX_DISPLACEMENT columns that holds core at the offset
\* (i, j), 0-based, on the background bg.
EmbedAt(core, i, j, bg) ==
  [rows |-> core.rows + 2 * _MAX_DISPLACEMENT,
   cols |-> core.cols + 2 * _MAX_DISPLACEMENT,
   px |-> [r \in 1..(core.rows + 2 * _MAX_DISPLACEMENT) |->
            [c \in 1..(core.cols + 2 * _MAX_DISPLACEMENT) |->
              IF /\ r > i /\ r <= i + core.rows
                 /\ c > j /\ c <= j + core.cols
                THEN core.px[r - i][c - j] ELSE bg]]]

EmbeddedAfters(core) ==
  {EmbedAt(core, i, j, bg) :
     i \in 0..(2 * _MAX_DISPLACEMENT), j \in 0..(2 * _MAX_DISPLACEMENT),
     bg \in {Black, Grey}}

\* A black image with one white pixel at (r0, c0).
Spot(r, c, r0, c0) ==
  [rows |-> r, cols |-> c,
   px |-> [i \in 1..r |-> [j \in 1..c |->
            IF i = r0 /\ j = c0 THEN White ELSE Black]]]

\* After images of at most MaxAlignDim rows and columns.
SmallAfters ==
  UNION {{Spot(r, c, 0, 0), Spot(r, c, 1, 1), Spot(r, c, 1, c),
          Spot(r, c, r, 1), Spot(r, c, r, c)} :
           r \in 1..MaxAlignDim, c \in 1..MaxAlignDim}

\* The outcome of a call of align_after_image: cv2.error is raised by
\* cv2.matchTemplate (line 88), before anything is cropped.
AlignOutcome(before_image, after_image) ==
  IF matchTemplateRaises(after_image, before_image)
    THEN [raised |-> TRUE, value |-> Zeros(0)]
    ELSE [raised |-> FALSE,
          value |-> align_after_image(before_image, after_image)]

\* ret is <<>> before the call and <<outcome>> after it.
InitAlign ==
  /\ InitPipeline
  /\ InferenceIdle
  /\ use_before_image = TRUE
  /\ arg \in UNION {{[before_image |-> b, after_image |-> a] :
                        a \in EmbeddedAfters(b) \cup SmallAfters} :
                     b \in AlignBefores}
  /\ ret = <<>>

AlignCall ==
  /\ ret = <<>>
  /\ ret' = <<AlignOutcome(arg.before_image, arg.after_image)>>
  /\ UNCHANGED <<pipeline_vars, inference_vars, arg>>

NextAlign == AlignCall

SpecAlign == InitAlign /\ [][NextAlign]_vars

(***************************************************************************)
(* run_inference (model/inference_lib.py:233-257): BatchElements and the   *)
(* ParDo of ModelInference, with the TestModel of model/inference_test.py  *)
(***************************************************************************)
\* The input examples of the tests (inference_test.py:125-132, 170-175):
\* example i has the int64_id i; with duplicates two successive examples
\* share their encoded coordinates.
InputExamples(n, duplicates) ==
  [k \in 1..n |->
    [int64_id            |-> k - 1,
     encoded_coordinates |-> IF duplicates THEN (k - 1) \div 2 ELSE k - 1]]

\* TestModel._id_to_score: a score for each id, in units of 1/8; no two
\* ids share a score.
id_to_score == [i \in 0..MaxExamples |-> 8 - i]

score_feature == "score"

\* The value a float_list holds for x: a 32-bit float keeps 24 significant
\* bits, which is every bit of a score of the model.
Float32(x) == IF x < 16777216 THEN x ELSE 2 * ((x + 1) \div 2)

\* utils.add_float_feature(name, value, example)
add_float_feature(name, value, example) ==
  [n \in (DOMAIN example) \cup {name} |->
    IF n = name THEN <<Float32(value)>> ELSE example[n]]

\* a variant of setup that leaves the model as it is
prepare_model_skipped(prepared) == prepared

\* TestModel.prepare_model (inference_test.py:79-81), called by
\* ModelInference.setup (inference_lib.py:213-214): the new value of
\* _model_prepared
prepare_model(prepared) == TRUE

\* TestModel.predict_scores (inference_test.py:83-109) on a model whose
\* _model_prepared is prepared and whose _expected_batch_size is expected
predict_scores(prepared, expected, batch) ==
  IF ~prepared \/ Len(batch) > expected
    THEN [raised |-> TRUE, scores |-> <<>>]
    ELSE [raised |-> FALSE,
          scores |-> [k \in DOMAIN batch |-> id_to_score[batch[k].int64_id]]]

\* a variant that hands the scores out in the reverse order
Outputs_reversed(batch, scores) ==
  [k \in 1..Min(Len(batch), Len(scores)) |->
    add_float_feature(score_feature, scores[Len(scores) + 1 - k], batch[k])]

\* ModelInference.process, lines 223-227: a scored copy for every pair of
\* zip(batch, scores)
Outputs(batch, scores) ==
  [k \in 1..Min(Len(batch), Len(scores)) |->
    add_float_feature(score_feature, scores[k], batch[k])]

\* a call of predict_scores has raised: the pipeline has failed
Failed == \E call \in BagToSet(calls) : call.raised

\* beam.Create and the arguments of run_inference.
InitInference ==
  /\ InitPipeline
  /\ use_before_image = FALSE
  /\ arg = Zeros(0)
  /\ ret = "none"
  /\ batch_size \in 1..MaxBatchSize
  /\ \E n \in 0..MaxExamples, duplicates \in BOOLEAN :
       examples = InputExamples(n, duplicates)
  /\ unread = examples
  /\ buffer = [w \in Workers |-> <<>>]
  /\ batches = EmptyBag
  /\ setup_done = [w \in Workers |-> FALSE]
  /\ model_prepared = [w \in Workers |-> FALSE]
  /\ calls = EmptyBag
  /\ scored = EmptyBag
  /\ examples_processed = 0
  /\ batches_processed = 0

\* DoFn.setup of the ModelInference of worker w (inference_lib.py:213-214);
\* Beam calls it once, before the DoFn processes anything.
Setup(w) ==
  /\ ~Failed
  /\ ~setup_done[w]
  /\ setup_done' = [setup_done EXCEPT ![w] = TRUE]
  /\ model_prepared' =
       [model_prepared EXCEPT ![w] = prepare_model(model_prepared[w])]
  /\ UNCHANGED <<pipeline_vars, arg, ret, batch_size, examples, unread, buffer,
                 batches, calls, scored, examples_processed,
                 batches_processed>>

\* a variant that keeps the batch it has put out
BufferAfterBatch_kept(batch) == batch

\* BatchElements starts a new batch once it has put one out.
BufferAfterBatch(batch) == <<>>

\* BatchElements(min_batch_size=batch_size, max_batch_size=batch_size)
\* (inference_lib.py:253-255) on worker w reads the next example: a batch
\* that has reached batch_size is put out.
BatchElement(w) ==
  /\ ~Failed
  /\ unread # <<>>
  /\ \E batch \in {Append(buffer[w], Head(unread))} :
       IF Len(batch) >= batch_size
         THEN /\ batches' = batches (+) SetToBag({batch})
              /\ buffer' = [buffer EXCEPT ![w] = BufferAfterBatch(batch)]
         ELSE /\ buffer' = [buffer EXCEPT ![w] = batch]
              /\ UNCHANGED batches
  /\ unread' = Tail(unread)
  /\ UNCHANGED <<pipeline_vars, arg, ret, batch_size, examples, setup_done,
                 model_prepared, calls, scored, examples_processed,
                 batches_processed>>

\* The bundle of worker w ends: BatchElements puts out what it holds.
FinishBundle(w) ==
  /\ ~Failed
  /\ buffer[w] # <<>>
  /\ batches' = batches (+) SetToBag({buffer[w]})
  /\ buffer' = [buffer EXCEPT ![w] = <<>>]
  /\ UNCHANGED <<pipeline_vars, arg, ret, batch_size, examples, unread, setup_done,
                 model_prepared, calls, scored, examples_processed,
                 batches_processed>>

\* ModelInference.process (inference_lib.py:216-230) of worker w on a
\* batch; an exception of predict_scores ends the call.
InferenceProcess(w) ==
  /\ ~Failed
  /\ setup_done[w]
  /\ \E batch \in BagToSet(batches) :
       \E result \in {predict_scores(model_prepared[w], batch_size, batch)} :
         /\ batches' = batches (-) SetToBag({batch})
         /\ calls' = calls (+) SetToBag({[worker   |-> w,
                                          batch    |-> batch,
                                          prepared |-> model_prepared[w],
                                          raised   |-> result.raised]})
         /\ IF result.raised
              THEN UNCHANGED <<scored, examples_processed,
                               batches_processed>>
              ELSE /\ scored' =
                        scored (+) SeqToBag(Outputs(batch, result.scores))
                   /\ examples_processed' = examples_processed + Len(batch)
                   /\ batches_processed' = batches_processed + 1
  /\ UNCHANGED <<pipeline_vars, arg, ret, batch_size, examples, unread, buffer,
                 setup_done, model_prepared>>

NextInference ==
  \E w \in Workers :
    \/ Setup(w)
    \/ BatchElement(w)
    \/ FinishBundle(w)
    \/ InferenceProcess(w)

SpecInference == InitInference /\ [][NextInference]_vars

(***************************************************************************)
(* TF2InferenceModel.predict_scores (model/inference_lib.py:118-194)       *)
(* An array of shape (rows, cols, channels) is a record [rows, cols, px]   *)
(* with px[r][c] the sequence of the channel values.                       *)
(***************************************************************************)
\* the image a PNG holds: the inverse of encode_png
decode_png(png) ==
  [rows |-> png.height,
   cols |-> png.width,
   px   |-> [r \in 1..png.height |-> [c \in 1..png.width |->
              [k \in 1..Channels |->
                png.data[((r - 1) * png.width + (c - 1)) * Channels + k]]]]]

\* the image resampled to size x size pixels, each from its nearest source
\* pixel
resize(image, size) ==
  [rows |-> size,
   cols |-> size,
   px   |-> [r \in 1..size |-> [c \in 1..size |->
              image.px[(((r - 1) * image.rows) \div size) + 1]
                      [(((c - 1) * image.cols) \div size) + 1]]]]

\* data.decode_and_resize_image(image_bytes, image_size)
decode_and_resize_image(image_bytes, image_size) ==
  resize(decode_png(image_bytes), image_size)

\* _extract_image_or_blank (lines 35-53)
_extract_image_or_blank(example, feature, image_size) ==
  IF feature \in DOMAIN example
    THEN decode_and_resize_image(example[feature][1], image_size)
    ELSE Zeros(image_size)

\* np.concatenate([pre_image, post_image], axis=2)
Concatenate(pre_image, post_image) ==
  [rows |-> pre_image.rows,
   cols |-> pre_image.cols,
   px   |-> [r \in 1..pre_image.rows |-> [c \in 1..pre_image.cols |->
              pre_image.px[r][c] \o post_image.px[r][c]]]]

\* a variant that puts the post image first
_extract_images_or_blanks_post_first(post_image_only, example, pre_image_feature, post_image_feature) ==
  IF post_image_only
    THEN _extract_image_or_blank(example, post_image_feature, ImageSize)
    ELSE Concatenate(
           _extract_image_or_blank(example, post_image_feature, ImageSize),
           _extract_image_or_blank(example, pre_image_feature, ImageSize))

\* TF2InferenceModel._extract_images_or_blanks (lines 118-145)
_extract_images_or_blanks(post_image_only, example, pre_image_feature, post_image_feature) ==
  IF post_image_only
    THEN _extract_image_or_blank(example, post_image_feature, ImageSize)
    ELSE Concatenate(
           _extract_image_or_blank(example, pre_image_feature, ImageSize),
           _extract_image_or_blank(example, post_image_feature, ImageSize))

\* TF2InferenceModel._extract_image_arrays (lines 173-194): the two lists
\* handed to np.stack
_extract_image_arrays(post_image_only, batch) ==
  [small_image |->
     [k \in DOMAIN batch |->
       _extract_images_or_blanks(post_image_only, batch[k],
                                 "pre_image_png", "post_image_png")],
   large_image |->
     [k \in DOMAIN batch |->
       _extract_images_or_blanks(post_image_only, batch[k],
                                 "pre_image_png_large",
                                 "post_image_png_large")]]

\* the sum of the channel values of an array, each weighted by its position
\* among the channels
RECURSIVE WeightedSum(_, _)
WeightedSum(values, k) ==
  IF k = 0 THEN 0 ELSE k * values[k] + WeightedSum(values, k - 1)

ArraySum(image) ==
  WeightedSum([n \in 1..(image.rows * image.cols) |->
                WeightedSum(image.px[((n - 1) \div image.cols) + 1]
                                    [((n - 1) % image.cols) + 1],
                            Len(image.px[((n - 1) \div image.cols) + 1]
                                        [((n - 1) % image.cols) + 1]))],
              image.rows * image.cols)

\* The saved model (inference_test.py:21-52): its output 'main' has one row
\* of two values for each row of its input, computed from that row alone.
KerasModel(model_input) ==
  [main |-> [k \in DOMAIN model_input.small_image |->
              <<0, ArraySum(model_input.small_image[k])
                     + 3 * ArraySum(model_input.large_image[k])>>]]

\* outputs['main'][:, 1]
Column1(main) == [k \in DOMAIN main |-> main[k][2]]

\* TF2InferenceModel.predict_scores (lines 168-171) on the arrays of
\* _extract_image_arrays; np.stack raises ValueError on an empty list.
PredictOnArrays(model_input) ==
  IF Len(model_input.small_image) = 0
    THEN [raised |-> TRUE, scores |-> <<>>, model_input |-> model_input]
    ELSE [raised |-> FALSE,
          scores |-> Column1(KerasModel(model_input).main),
          model_input |-> model_input]

TF2_predict_scores(post_image_only, batch) ==
  PredictOnArrays(Table(_extract_image_arrays(post_image_only, batch)))

\* The PNG of a patch of n x n pixels of the value v, but for a black
\* first pixel.
TestPng(n, v) ==
  encode_png([rows |-> n, cols |-> n,
              px |-> [r \in 1..n |-> [c \in 1..n |->
                       IF r = 1 /\ c = 1 THEN Black ELSE <<v, v, v>>]]])

ImageFeatures ==
  {"pre_image_png", "post_image_png", "pre_image_png_large",
   "post_image_png_large"}

\* _create_test_example (inference_test.py:55-69), with any of the four
\* image features left out; the small images have ImageSize pixels in a
\* row, the large images one more.
TestExample(present, v) ==
  [name \in present \cup {"example_id"} |->
    IF name = "example_id" THEN <<"deadbeef">>
    ELSE IF name = "pre_image_png" THEN <<TestPng(ImageSize, v)>>
    ELSE IF name = "post_image_png" THEN <<TestPng(ImageSize, v + 1)>>
    ELSE IF name = "pre_image_png_large" THEN <<TestPng(ImageSize + 1, v)>>
    ELSE <<TestPng(ImageSize + 1, v + 1)>>]

TF2Args ==
  {[post_image_only |-> p, batch |-> b] :
     p \in BOOLEAN,
     b \in UNION {[1..n -> {TestExample(present, v) :
                               present \in SUBSET ImageFeatures,
                               v \in {1, 3}}] : n \in 0..MaxTF2Batch}}

\* ret is <<>> before the call and <<outcome>> after it.
InitTF2 ==
  /\ InitPipeline
  /\ InferenceIdle
  /\ use_before_image = FALSE
  /\ arg \in TF2Args
  /\ ret = <<>>

PredictScoresCall ==
  /\ ret = <<>>
  /\ ret' = <<TF2_predict_scores(arg.post_image_only, arg.batch)>>
  /\ UNCHANGED <<pipeline_vars, inference_vars, arg>>

NextTF2 == PredictScoresCall

SpecTF2 == InitTF2 /\ [][NextTF2]_vars

(***************************************************************************)
(* read_labels_file (generate_examples.py:437-501)                         *)
(* A string of the form "class=label" is the sequence of its parts, the    *)
(* sign "=" among them. A label read from the file is a record with the    *)
(* field str or the field num set, as it is a class name or a number.      *)
(***************************************************************************)
\* the positions of "=" in an entry
Separators(entry) == {k \in DOMAIN entry : entry[k] = "="}

\* float(text) for the texts of the model: <<>> stands for ValueError
ToFloat(text) ==
  IF text = <<"0">> THEN <<0>>
  ELSE IF text = <<"1">> THEN <<1>>
  ELSE <<>>

\* a variant that logs a malformed entry and goes on, with the class 0
ParseEntry_logged(entry) ==
  IF Cardinality(Separators(entry)) # 1
       \/ ToFloat(SubSeq(entry, (CHOOSE k \in Separators(entry) : TRUE) + 1,
                         Len(entry))) = <<>>
    THEN [raised |-> FALSE, label |-> entry, class |-> 0]
  ELSE [raised |-> FALSE,
        label  |-> SubSeq(entry, 1,
                          (CHOOSE k \in Separators(entry) : TRUE) - 1),
        class  |-> ToFloat(SubSeq(entry,
                                  (CHOOSE k \in Separators(entry) : TRUE) + 1,
                                  Len(entry)))[1]]

\* lines 467-476 on one entry: label, numeric_class = entry.split('=') and
\* float(numeric_class); raised stands for the ValueError of line 468, of
\* the unpacking or of float
ParseEntry(entry) ==
  IF Cardinality(Separators(entry)) # 1
    THEN [raised |-> TRUE, label |-> <<>>, class |-> 0]
  ELSE IF ToFloat(SubSeq(entry, (CHOOSE k \in Separators(entry) : TRUE) + 1,
                         Len(entry))) = <<>>
    THEN [raised |-> TRUE, label |-> <<>>, class |-> 0]
  ELSE [raised |-> FALSE,
        label  |-> SubSeq(entry, 1,
                          (CHOOSE k \in Separators(entry) : TRUE) - 1),
        class  |-> ToFloat(SubSeq(entry,
                                  (CHOOSE k \in Separators(entry) : TRUE) + 1,
                                  Len(entry)))[1]]

\* lines 464-476: the dictionary after the entries 1..k; bound is false
\* while the name label_to_class_dict is not assigned
RECURSIVE LabelToClassDict(_, _)
LabelToClassDict(labels_to_classes, k) ==
  IF k = 0
    THEN [raised |-> FALSE, bound |-> labels_to_classes # <<>>, dict |-> <<>>]
  ELSE IF LabelToClassDict(labels_to_classes, k - 1).raised
         \/ ParseEntry(labels_to_classes[k]).raised
    THEN [raised |-> TRUE, bound |-> TRUE, dict |-> <<>>]
  ELSE [raised |-> FALSE,
        bound  |-> TRUE,
        dict   |-> Update(LabelToClassDict(labels_to_classes, k - 1).dict,
                          [l \in {ParseEntry(labels_to_classes[k]).label}
                             |-> ParseEntry(labels_to_classes[k]).class])]

\* lines 484-492 on one row (numbers are the only other labels of the
\* model): the new value of float_label, <<>> while the name is not
\* assigned; raised stands for the NameError of line 486
LabelOfRow(parsed, float_label, label) ==
  IF label.str # <<>>
    THEN IF ~parsed.bound
           THEN [raised |-> TRUE, float_label |-> float_label]
         ELSE IF label.str \in DOMAIN parsed.dict
           THEN [raised |-> FALSE,
                 float_label |-> <<parsed.dict[label.str]>>]
         ELSE [raised |-> FALSE, float_label |-> float_label]
    ELSE [raised |-> FALSE, float_label |-> <<label.num[1]>>]

\* line 494: the row is appended with the value float_label has, whether
\* its class was recognized or not; reading the name while it is not
\* assigned raises UnboundLocalError
AppendRow(coordinates, row, label_of_row) ==
  IF label_of_row.raised \/ label_of_row.float_label = <<>>
    THEN [raised |-> TRUE, float_label |-> label_of_row.float_label,
          coordinates |-> coordinates]
  ELSE [raised |-> FALSE, float_label |-> label_of_row.float_label,
        coordinates |-> Append(coordinates,
                               <<row.x, row.y, label_of_row.float_label[1]>>)]

\* lines 480-494: the loop over the rows 1..k
RECURSIVE ReadRows(_, _, _)
ReadRows(parsed, rows, k) ==
  IF k = 0
    THEN [raised |-> FALSE, float_label |-> <<>>, coordinates |-> <<>>]
  ELSE IF ReadRows(parsed, rows, k - 1).raised
    THEN ReadRows(parsed, rows, k - 1)
  ELSE AppendRow(ReadRows(parsed, rows, k - 1).coordinates, rows[k],
                 LabelOfRow(parsed, ReadRows(parsed, rows, k - 1).float_label,
                            rows[k].label))

\* lines 496-497: coordinates[:max_points] if max_points is set (0 stands
\* for None, which is as false as 0)
Truncate(coordinates, max_points) ==
  IF max_points # 0
    THEN SubSeq(coordinates, 1, Min(max_points, Len(coordinates)))
    ELSE coordinates

\* file_read tells whether gpd.read_file (line 479) was reached
ReturnCoordinates(read, max_points) ==
  IF read.raised
    THEN [raised |-> TRUE, file_read |-> TRUE, coordinates |-> <<>>]
  ELSE [raised |-> FALSE, file_read |-> TRUE,
        coordinates |-> Truncate(read.coordinates, max_points)]

ReadParsed(parsed, rows, max_points) ==
  IF parsed.raised
    THEN [raised |-> TRUE, file_read |-> FALSE, coordinates |-> <<>>]
  ELSE ReturnCoordinates(ReadRows(parsed, rows, Len(rows)), max_points)

\* read_labels_file on the rows of the file
read_labels_file(rows, labels_to_classes, max_points) ==
  ReadParsed(LabelToClassDict(labels_to_classes, Len(labels_to_classes)),
             rows, max_points)

RowLabels ==
  {[str |-> <<"undamaged">>, num |-> <<>>],
   [str |-> <<"damaged">>, num |-> <<>>],
   [str |-> <<"unknown">>, num |-> <<>>],
   [str |-> <<>>, num |-> <<2>>]}

\* The files of at most MaxRows rows; row k has the centroid (k, 0).
LabelRows ==
  UNION {{[k \in 1..n |-> [x |-> k, y |-> 0, label |-> labels[k]]] :
            labels \in [1..n -> RowLabels]} : n \in 0..MaxRows}

LabelsToClasses ==
  {<<>>,
   <<<<"undamaged", "=", "0">>, <<"damaged", "=", "1">>>>,
   <<<<"damaged", "=", "1">>, <<"destroyed">>>>}

LabelsArgs ==
  {[fn |-> "read_labels_file", rows |-> rows, labels_to_classes |-> ltc,
    max_points |-> mp] :
     rows \in LabelRows, ltc \in LabelsToClasses, mp \in 0..2}

\* ret is <<>> before the call and <<outcome>> after it.
InitLabels ==
  /\ InitPipeline
  /\ InferenceIdle
  /\ use_before_image = FALSE
  /\ arg \in LabelsArgs
  /\ ret = <<>>

ReadLabelsCall ==
  /\ ret = <<>>
  /\ arg.fn = "read_labels_file"
  /\ ret' = <<read_labels_file(arg.rows, arg.labels_to_classes,
                               arg.max_points)>>
  /\ UNCHANGED <<pipeline_vars, inference_vars, arg>>

NextLabels == ReadLabelsCall

SpecLabels == InitLabels /\ [][NextLabels]_vars

(***************************************************************************)
(* The configuration checks: parse_gdal_env (lines 523-539), the head of   *)
(* generate_examples_pipeline (lines 582-614) and the head of              *)
(* read_labels_file (lines 464-476)                                        *)
(***************************************************************************)
\* setting.partition('=') on a setting that holds '=': the text before the
\* first '=' and the text after it
Partition(setting) ==
  LET first == CHOOSE k \in Separators(setting) :
                 \A j \in Separators(setting) : k <= j
  IN  [var   |-> SubSeq(setting, 1, first - 1),
       value |-> SubSeq(setting, first + 1, Len(setting))]

\* lines 532-539 on the settings 1..k
RECURSIVE GdalEnv(_, _)
GdalEnv(settings, k) ==
  IF k = 0 THEN [raised |-> FALSE, gdal_env |-> <<>>]
  ELSE IF GdalEnv(settings, k - 1).raised \/ Separators(settings[k]) = {}
    THEN [raised |-> TRUE, gdal_env |-> <<>>]
  ELSE [raised |-> FALSE,
        gdal_env |->
          Update(GdalEnv(settings, k - 1).gdal_env,
                 [v \in {Partition(settings[k]).var} |->
                   Partition(settings[k]).value])]

parse_gdal_env(settings) == GdalEnv(settings, Len(settings))

\* lines 597-636: what follows the choice of the pipeline options. effects
\* lists the calls with an effect outside the function, in call order.
\* With neither coordinates the output prefixes are not assigned, and the
\* pipeline under construction raises UnboundLocalError at line 625.
RunPipeline(options, unlabeled_coordinates, labeled_coordinates) ==
  IF unlabeled_coordinates # <<>> \/ labeled_coordinates # <<>>
    THEN [raised |-> FALSE,
          effects |-> options \o <<"write_coordinates_file", "Pipeline",
                                   "_generate_examples", "run">>]
    ELSE [raised |-> TRUE,
          effects |-> options \o <<"Pipeline", "_generate_examples">>]

\* lines 582-636; None is <<>>
generate_examples_pipeline(use_dataflow, cloud_project, cloud_region, unlabeled_coordinates, labeled_coordinates) ==
  IF use_dataflow /\ (cloud_project = <<>> \/ cloud_region = <<>>)
    THEN [raised |-> TRUE, effects |-> <<>>]
  ELSE RunPipeline(IF use_dataflow
                     THEN <<"_get_dataflow_pipeline_options">>
                     ELSE <<"_get_local_pipeline_options">>,
                   unlabeled_coordinates, labeled_coordinates)

\* The texts "var=value" of the model, as sequences of their parts.
Settings ==
  {<<"GDAL_CACHEMAX", "=", "1">>, <<"GDAL_CACHEMAX">>,
   <<"OPT", "=", "a", "=", "b">>, <<"=", "1">>}

InitConfig ==
  /\ InitPipeline
  /\ InferenceIdle
  /\ use_before_image = FALSE
  /\ arg \in
       {[fn |-> "parse_gdal_env", settings |-> settings] :
          settings \in UNION {[1..n -> Settings] : n \in 0..2}}
       \cup
       {[fn |-> "generate_examples_pipeline", use_dataflow |-> use,
         cloud_project |-> project, cloud_region |-> region,
         unlabeled_coordinates |-> unlabeled,
         labeled_coordinates |-> labeled] :
          use \in BOOLEAN, project \in {<<>>, <<"project">>},
          region \in {<<>>, <<"region">>},
          unlabeled \in {<<>>, <<<<1, 1>>>>},
          labeled \in {<<>>, <<<<1, 1, 0>>>>}}
       \cup
       \* labels_to_classes also with an entry without '=', with a class
       \* that is not a number, and with two '='
       {[fn |-> "read_labels_file", rows |-> rows,
         labels_to_classes |-> ltc, max_points |-> 0] :
          rows \in {r \in LabelRows : Len(r) <= 2},
          ltc \in LabelsToClasses
                    \cup {<<<<"damaged", "=", "1">>,
                            <<"destroyed", "=", "yes">>>>,
                          <<<<"damaged", "=", "1", "=", "0">>>>,
                          <<<<"undamaged">>, <<"damaged", "=", "1">>>>}}
  /\ ret = <<>>

ParseGdalEnvCall ==
  /\ ret = <<>>
  /\ arg.fn = "parse_gdal_env"
  /\ ret' = <<parse_gdal_env(arg.settings)>>
  /\ UNCHANGED <<pipeline_vars, inference_vars, arg>>

GenerateExamplesPipelineCall ==
  /\ ret = <<>>
  /\ arg.fn = "generate_examples_pipeline"
  /\ ret' = <<generate_examples_pipeline(arg.use_dataflow, arg.cloud_project,
                                         arg.cloud_region,
                                         arg.unlabeled_coordinates,
                                         arg.labeled_coordinates)>>
  /\ UNCHANGED <<pipeline_vars, inference_vars, arg>>

NextConfig ==
  \/ ParseGdalEnvCall
  \/ GenerateExamplesPipelineCall
  \/ ReadLabelsCall

SpecConfig == InitConfig /\ [][NextConfig]_vars

(***************************************************************************)
(* Properties of process and of _create_example, stated on the latest      *)
(* call (last) and on the streams                                          *)
(***************************************************************************)
\* the before and the after images among the fragments of the latest group
LastBefore ==
  {last.features[k].before_image[1] :
     k \in {j \in DOMAIN last.features : last.features[j].before_image # <<>>}}

LastAfter ==
  {last.features[k].after_image[1] :
     k \in {j \in DOMAIN last.features : last.features[j].after_image # <<>>}}

NumBefore ==
  Cardinality({j \in DOMAIN last.features :
                 last.features[j].before_image # <<>>})

NumAfter ==
  Cardinality({j \in DOMAIN last.features :
                 last.features[j].after_image # <<>>})

LastStatuses ==
  {last.result.statuses[p] : p \in DOMAIN last.result.statuses}

Yielded == last.result.yielded

\* the after image a pair works on: aligned to the before image when before
\* images are used
PairAfter(before_image, after_image) ==
  IF use_before_image
    THEN align_after_image(before_image, after_image)
    ELSE after_image

\* a PNG of n x n pixels that are all zero
IsZeroPng(png, n) ==
  /\ png.height = n
  /\ png.width = n
  /\ \A k \in DOMAIN png.data : png.data[k] = 0

\* C1: process emits an Example only for a pair of a group that holds an
\* after image, and only if the center crop of size example_patch_size of
\* the pair's after image, taken after the alignment when before images are
\* used, is not mostly blank; every image handed to _mostly_blank is such a
\* small crop, never a large image.
C1_EmittedOnlyWithNonBlankAfterCrop ==
  last.called =>
    /\ Yielded # <<>> => LastAfter # {}
    /\ \A n \in DOMAIN Yielded :
         \E a \in LastAfter :
           \E b \in (IF use_before_image THEN LastBefore
                     ELSE {[id |-> "", image |-> Zeros(LargePatchSize)]}) :
             LET small == _center_crop(PairAfter(b.image, a.image),
                                       ExamplePatchSize)
             IN  /\ Yielded[n]["pre_image_id"] = b.id
                 /\ Yielded[n]["post_image_id"] = a.id
                 /\ Yielded[n]["post_image_png"] = encode_png(small)
                 /\ ~_mostly_blank(small)
    /\ \A k \in DOMAIN last.result.blank_args :
         /\ last.result.blank_args[k].rows = ExamplePatchSize
         /\ last.result.blank_args[k].cols = ExamplePatchSize

\* With before images, one pair of the group was emitted and another was
\* rejected for its blank after crop.
C1_Witness ==
  /\ last.called
  /\ use_before_image
  /\ Yielded # <<>>
  /\ "after_blank" \in LastStatuses

\* C2: with before images, every emitted Example comes from a group that
\* holds a before image, and the center crop of its pair's before image is
\* not mostly blank.
C2_EmittedOnlyWithNonBlankBeforeCrop ==
  (last.called /\ use_before_image) =>
    /\ Yielded # <<>> => LastBefore # {}
    /\ \A n \in DOMAIN Yielded :
         \E b \in LastBefore :
           /\ Yielded[n]["pre_image_id"] = b.id
           /\ Yielded[n]["pre_image_png_large"] = encode_png(b.image)
           /\ ~_mostly_blank(_center_crop(b.image, ExamplePatchSize))

\* One before image of the group was emitted with, another was rejected for
\* its blank crop.
C2_Witness ==
  /\ last.called
  /\ use_before_image
  /\ Yielded # <<>>
  /\ "before_blank" \in LastStatuses

\* C3: without before images, every emitted Example has an all-zero large
\* before image of large_patch_size, an all-zero small before image and the
\* empty before id; the before fragments of a group are ignored (one pair
\* per after image), and the before-blank counter is never incremented.
C3_NoBeforeImageMode ==
  ~use_before_image =>
    /\ before_patch_blank_count = 0
    /\ \A e \in BagToSet(large_examples) :
         /\ e["pre_image_id"] = ""
         /\ IsZeroPng(e["pre_image_png_large"], LargePatchSize)
         /\ IsZeroPng(e["pre_image_png"], ExamplePatchSize)
    /\ last.called => Len(last.result.statuses) = NumAfter

\* Without before images a group that holds a before fragment was emitted.
C3_Witness ==
  /\ ~use_before_image
  /\ last.called
  /\ LastBefore # {}
  /\ Yielded # <<>>

\* no blank check of any pair of the latest group rejects
NoCropBlank ==
  /\ \A b \in LastBefore :
       ~_mostly_blank(_center_crop(b.image, ExamplePatchSize))
  /\ \A b \in LastBefore, a \in LastAfter :
       ~_mostly_blank(_center_crop(PairAfter(b.image, a.image),
                                   ExamplePatchSize))

\* C4 as claimed: with before images, a group of m before and n after
\* images without a blank crop yields m * n Examples with pairwise distinct
\* example ids.
C4_Original ==
  (last.called /\ use_before_image /\ NoCropBlank) =>
    /\ Len(Yielded) = NumBefore * NumAfter
    /\ \A i, j \in DOMAIN Yielded :
         i # j => Yielded[i]["example_id"] # Yielded[j]["example_id"]

\* C4 as amended: such a group yields m * n Examples, and two of them have
\* the same example id only if their pairs agree on the before source id
\* and on the after source id.
C4_CrossProduct ==
  (last.called /\ use_before_image /\ NoCropBlank) =>
    /\ Len(Yielded) = NumBefore * NumAfter
    /\ \A i, j \in DOMAIN Yielded :
         (Yielded[i]["example_id"] = Yielded[j]["example_id"]) =>
           /\ Yielded[i]["pre_image_id"] = Yielded[j]["pre_image_id"]
           /\ Yielded[i]["post_image_id"] = Yielded[j]["post_image_id"]

\* A group of several pairs, none blank, was emitted with distinct ids.
C4_Witness ==
  /\ last.called
  /\ use_before_image
  /\ NoCropBlank
  /\ NumBefore * NumAfter >= 2
  /\ Len(Yielded) = NumBefore * NumAfter
  /\ \A i, j \in DOMAIN Yielded :
       i # j => Yielded[i]["example_id"] # Yielded[j]["example_id"]

\* no pair ran in the latest call
NoPairRan ==
  /\ Yielded = <<>>
  /\ last.result.statuses = <<>>
  /\ last.result.blank_args = <<>>
  /\ last.result.aligned = 0

\* C5: a group without any after image yields no Example, runs no pair, and
\* adds 1 to the after-blank and to the rejected counter and nothing to the
\* generated and to the before-blank counter.
C5_NoAfterImageGroup ==
  (last.called /\ LastAfter = {}) =>
    /\ NoPairRan
    /\ after_patch_blank_count = last.prev.after_blank + 1
    /\ bad_example_count = last.prev.bad + 1
    /\ example_count = last.prev.example
    /\ before_patch_blank_count = last.prev.before_blank

\* With before images, a group of scalar features and before images only
\* was processed.
C5_Witness ==
  /\ last.called
  /\ use_before_image
  /\ LastAfter = {}
  /\ LastBefore # {}

\* C6: with before images, a group that holds after images and no before
\* image yields no Example, runs no pair, and adds exactly 1 to the rejected
\* counter.
C6_NoBeforeImageGroup ==
  (last.called /\ use_before_image /\ LastAfter # {} /\ LastBefore = {}) =>
    /\ NoPairRan
    /\ bad_example_count = last.prev.bad + 1

\* Such a group with two after images was processed.
C6_Witness ==
  /\ last.called
  /\ use_before_image
  /\ NumAfter >= 2
  /\ LastBefore = {}

(***************************************************************************)
(* Properties of _mostly_blank, stated on SpecBlank                        *)
(***************************************************************************)
\* the spatial positions of an image whose three channel values are all 0
ZeroPositions(image) ==
  {rc \in (1..image.rows) \X (1..image.cols) :
     \A k \in 1..Channels : image.px[rc[1]][rc[2]][k] = 0}

NumPositions(image) == image.rows * image.cols

\* C7: on an image of shape (rows, cols, 3), _mostly_blank returns true
\* exactly when the positions whose maximum over the three channels is zero
\* are at least the fraction 0.25 of the rows * cols positions.
C7_BlankIffZeroPositionFraction ==
  (ret # "none" /\ Size(arg) > 0) =>
    ((ret = "True") <=>
       (_BLANK_THRESHOLD_DEN * Cardinality(ZeroPositions(arg))
          >= _BLANK_THRESHOLD_NUM * NumPositions(arg)))

\* C8: an image with exactly 25% all-zero positions is blank, one with
\* fewer is not, an all-zero image is blank, an image without a zero
\* position is not blank, and an image without elements is not blank.
C8_ThresholdBoundary ==
  ret # "none" =>
    /\ (Size(arg) > 0 /\ 4 * Cardinality(ZeroPositions(arg))
                           = NumPositions(arg)) => ret = "True"
    /\ (Size(arg) > 0 /\ 4 * Cardinality(ZeroPositions(arg))
                           < NumPositions(arg)) => ret = "False"
    /\ (Size(arg) > 0 /\ Cardinality(ZeroPositions(arg))
                           = NumPositions(arg)) => ret = "True"
    /\ (Size(arg) > 0 /\ ZeroPositions(arg) = {}) => ret = "False"
    /\ Size(arg) = 0 => ret = "False"

(***************************************************************************)
(* Properties of align_after_image, stated on SpecAlign                    *)
(***************************************************************************)
\* the after image exceeds the before image by 2 * _MAX_DISPLACEMENT rows
\* and columns
HasBorder ==
  /\ arg.after_image.rows = arg.before_image.rows + 2 * _MAX_DISPLACEMENT
  /\ arg.after_image.cols = arg.before_image.cols + 2 * _MAX_DISPLACEMENT

\* the window of the after image at the offset o of the before image's shape
Window(o) ==
  Slice(arg.after_image, o[1], o[1] + arg.before_image.rows,
        o[2], o[2] + arg.before_image.cols)

BorderOffsets ==
  (0..(2 * _MAX_DISPLACEMENT)) \X (0..(2 * _MAX_DISPLACEMENT))

\* the match score of every window of the after image
Scores ==
  matchTemplate(_to_grayscale(arg.after_image),
                _to_grayscale(arg.before_image),
                arg.before_image.rows, arg.before_image.cols,
                Offsets(arg.before_image, arg.after_image))

\* C11: called with an after image that is not larger than the before image
\* in both dimensions, align_after_image raises nothing and returns the crop
\* of the after image at the offset (0, 0).
C11_NotLargerAfterIsCroppedAtZero ==
  (/\ ret # <<>>
   /\ ~(/\ arg.after_image.rows > arg.before_image.rows
        /\ arg.after_image.cols > arg.before_image.cols)) =>
    /\ ~ret[1].raised
    /\ ret[1].value = Window(<<0, 0>>)

\* C12: for an after image with a border of _MAX_DISPLACEMENT pixels,
\* align_after_image returns the window of the before image's shape, with
\* its 3 channels, at an offset within the border whose match score no
\* other offset exceeds.
C12_CropOfBeforeShapeAtBestOffset ==
  (ret # <<>> /\ HasBorder) =>
    /\ ~ret[1].raised
    /\ ret[1].value.rows = arg.before_image.rows
    /\ ret[1].value.cols = arg.before_image.cols
    /\ \A r \in 1..ret[1].value.rows, c \in 1..ret[1].value.cols :
         Len(ret[1].value.px[r][c]) = Channels
    /\ \E o \in BorderOffsets :
         /\ ret[1].value = Window(o)
         /\ \A o2 \in BorderOffsets : ~ScoreGreater(Scores[o2], Scores[o])

\* The crop was taken at the largest offset, and differs from the crop at
\* the offset (0, 0).
C12_Witness ==
  /\ ret # <<>>
  /\ HasBorder
  /\ ret[1].value
       = Window(<<2 * _MAX_DISPLACEMENT, 2 * _MAX_DISPLACEMENT>>)
  /\ ret[1].value # Window(<<0, 0>>)
  /\ \A o \in BorderOffsets :
       o # <<2 * _MAX_DISPLACEMENT, 2 * _MAX_DISPLACEMENT>> =>
         ScoreGreater(
           Scores[<<2 * _MAX_DISPLACEMENT, 2 * _MAX_DISPLACEMENT>>],
           Scores[o])

\* the offsets at which the after image holds the content of the before
\* image
EmbeddingOffsets == {o \in BorderOffsets : Window(o) = arg.before_image}

\* C13 as claimed: if the after image holds the content of the before image
\* at an offset within its border, align_after_image returns a crop equal
\* to the before image.
C13_Original ==
  (ret # <<>> /\ HasBorder /\ EmbeddingOffsets # {}) =>
    /\ ~ret[1].raised
    /\ ret[1].value = arg.before_image

\* the window at o is the only one with the highest match score
OnlyBestMatch(o) ==
  \A o2 \in BorderOffsets :
    o2 # o => ScoreGreater(Scores[o], Scores[o2])

\* C13 as amended: if the after image holds the content of the before image
\* at an offset within its border, and the window at that offset is the only
\* one with the highest match score, align_after_image returns a crop equal
\* to the before image.
C13_EmbeddedContentRecovered ==
  (/\ ret # <<>>
   /\ HasBorder
   /\ \E o \in EmbeddingOffsets : OnlyBestMatch(o)) =>
    /\ ~ret[1].raised
    /\ ret[1].value = arg.before_image

\* The content was recovered from an offset other than (0, 0), on a grey
\* background.
C13_Witness ==
  /\ ret # <<>>
  /\ HasBorder
  /\ \E o \in EmbeddingOffsets : o # <<0, 0>> /\ OnlyBestMatch(o)
  /\ arg.after_image.px[1][1] = Grey
  /\ ret[1].value = arg.before_image

(***************************************************************************)
(* process on groups that hold any _FeatureUnion the dataclass admits      *)
(***************************************************************************)
\* largest group of the check of the fragments
MaxGroup == 3

\* _FeatureUnion(): no attribute is set
EmptyFragment ==
  [scalar_features |-> <<>>, before_image |-> <<>>, after_image |-> <<>>]

\* the attributes of feature that are set
Populated(feature) ==
  {name \in {"scalar_features", "before_image", "after_image"} :
     feature[name] # <<>>}

\* the _FeatureUnion with every attribute that f or g has set, those of g
\* first
Merged(f, g) ==
  [name \in {"scalar_features", "before_image", "after_image"} |->
    IF g[name] # <<>> THEN g[name] ELSE f[name]]

\* Fragments with no attribute or with two attributes.
MalformedFragments(use) ==
  {EmptyFragment,
   Merged(ScalarFragment(1, 1, 0),
          AfterFragment("a0", AfterPatch(use, Tex(LargePatchSize), 0))),
   Merged(BeforeFragment("b0", Tex(LargePatchSize)),
          AfterFragment("a0", AfterPatch(use, Tex(LargePatchSize), 0)))}

Groups(fragments) ==
  UNION {[1..n -> fragments] : n \in 1..MaxGroup}

\* GroupByKey has formed one group; process has not run.
InitUnion ==
  /\ use_before_image \in BOOLEAN
  /\ example_count = 0
  /\ bad_example_count = 0
  /\ before_patch_blank_count = 0
  /\ after_patch_blank_count = 0
  /\ pending \in Groups(Fragments(use_before_image)
                          \cup MalformedFragments(use_before_image))
  /\ collected = Len(pending)
  /\ large_examples = EmptyBag
  /\ to_small = <<>>
  /\ small_examples = EmptyBag
  /\ last = NoCall
  /\ worker_state = [w \in Workers |-> IdleWorker(NoCounts)]
  /\ claimed = {}
  /\ InferenceIdle
  /\ arg = Zeros(0)
  /\ ret = "none"

NextUnion == Process \/ GenerateSmallExample

SpecUnion == InitUnion /\ [][NextUnion]_vars

(***************************************************************************)
(* process on groups of several before and several after images, the       *)
(* fragments of a group in any order                                       *)
(***************************************************************************)
\* largest group of the check of the order
MaxOrderGroup == 5

OrderFragments(use) ==
  {ScalarFragment(1, 1, 0),
   ScalarFragment(1, 1, 1),
   BeforeFragment("b0", Tex(LargePatchSize)),
   BeforeFragment("b1", Bright(LargePatchSize)),
   AfterFragment("a0", AfterPatch(use, Tex(LargePatchSize), 0)),
   AfterFragment("a1", Bright(PatchSize(use))),
   AfterFragment("a2", AfterPatch(use, Edge(LargePatchSize),
                                  _MAX_DISPLACEMENT))}

\* The groups of at most MaxOrderGroup of these fragments, each fragment at
\* most once and the scalar features among them, in every order.
OrderGroups(fragments) ==
  {group \in UNION {[1..n -> fragments] : n \in 1..MaxOrderGroup} :
     /\ \A i, j \in DOMAIN group : group[i] = group[j] => i = j
     /\ \E i \in DOMAIN group : HasScalar(group[i])}

InitOrder ==
  /\ use_before_image \in BOOLEAN
  /\ example_count = 0
  /\ bad_example_count = 0
  /\ before_patch_blank_count = 0
  /\ after_patch_blank_count = 0
  /\ pending \in OrderGroups(OrderFragments(use_before_image))
  /\ collected = Len(pending)
  /\ large_examples = EmptyBag
  /\ to_small = <<>>
  /\ small_examples = EmptyBag
  /\ last = NoCall
  /\ worker_state = [w \in Workers |-> IdleWorker(NoCounts)]
  /\ claimed = {}
  /\ InferenceIdle
  /\ arg = Zeros(0)
  /\ ret = "none"

NextOrder == Process \/ GenerateSmallExample

SpecOrder == InitOrder /\ [][NextOrder]_vars

\* C14: process does not return from a group that holds a fragment with no
\* attribute set or with more than one attribute set: every group it has
\* worked through holds fragments with exactly one attribute only.
C14_MalformedFragmentIsFatal ==
  last.called =>
    \A k \in DOMAIN last.features :
      Cardinality(Populated(last.features[k])) = 1

(***************************************************************************)
(* Properties of the example ids and of the two streams                    *)
(***************************************************************************)
\* the values the example id of an Example is built from
IdTuple(e) ==
  <<e["coordinates"][1], e["coordinates"][2], e["pre_image_id"],
    e["post_image_id"]>>

\* C9: two emitted Examples, of any groups, with the same longitude,
\* latitude, before source id and after source id have the same example id,
\* whatever their pixels, labels and the counters at their emission.
C9_IdDeterminedByTuple ==
  \A e1, e2 \in BagToSet(large_examples) :
    IdTuple(e1) = IdTuple(e2) => e1["example_id"] = e2["example_id"]

\* Two Examples with the same four values and different labels and pixels
\* were emitted.
C9_Witness ==
  \E e1, e2 \in BagToSet(large_examples) :
    /\ IdTuple(e1) = IdTuple(e2)
    /\ e1["label"] # e2["label"]
    /\ e1["post_image_png"] # e2["post_image_png"]

\* the features every full Example carries
FullFeatures ==
  {"encoded_coordinates", "example_id", "pre_image_png_large",
   "pre_image_png", "pre_image_id", "post_image_png_large",
   "post_image_png", "post_image_id", "coordinates", "label"}

\* e without its two large images
Reduction(e) ==
  [name \in FullFeatures \ {"pre_image_png_large", "post_image_png_large"}
     |-> e[name]]

\* copies in the bag of the full Examples whose reduction is s
CopiesReducingTo(s, bag) ==
  LET es == {e \in BagToSet(bag) : Reduction(e) = s}
      RECURSIVE Sum(_)
      Sum(S) == IF S = {} THEN 0
                ELSE LET e == CHOOSE x \in S : TRUE
                     IN  CopiesIn(e, bag) + Sum(S \ {e})
  IN  Sum(es)

InFlightReducingTo(s) ==
  Cardinality({k \in DOMAIN to_small : Reduction(to_small[k]) = s})

\* C10: every full Example of the large stream keeps all its features, and
\* the small stream holds, for each full Example the small stage has taken,
\* exactly one Example that lacks the two large images and equals it in
\* every other feature.
C10_SmallIsProjectionOfLarge ==
  /\ \A e \in BagToSet(large_examples) : DOMAIN e = FullFeatures
  /\ BagCardinality(large_examples) = example_count
  /\ \A s \in BagToSet(small_examples) :
       DOMAIN s = FullFeatures \ {"pre_image_png_large",
                                  "post_image_png_large"}
  /\ \A s \in BagToSet(small_examples)
            \cup {Reduction(e) : e \in BagToSet(large_examples)} :
       CopiesIn(s, small_examples) + InFlightReducingTo(s)
         = CopiesReducingTo(s, large_examples)

\* The small stage has taken every Example of a run that emitted several.
C10_Witness ==
  /\ to_small = <<>>
  /\ BagCardinality(large_examples) >= 2
  /\ BagCardinality(small_examples) = BagCardinality(large_examples)

(***************************************************************************)
(* Properties of run_inference, stated on SpecInference                    *)
(***************************************************************************)
\* every example has been batched and every batch has been scored
InferenceDone ==
  /\ ~Failed
  /\ unread = <<>>
  /\ \A w \in Workers : buffer[w] = <<>>
  /\ batches = EmptyBag

\* the sum of f[x] over the x of S
RECURSIVE SumOver(_, _)
SumOver(S, f) ==
  IF S = {} THEN 0
  ELSE LET x == CHOOSE y \in S : TRUE
       IN  f[x] + SumOver(S \ {x}, f)

\* the input examples with the encoded coordinates c
ExamplesAt(c) ==
  {k \in DOMAIN examples : examples[k].encoded_coordinates = c}

Coordinates ==
  {examples[k].encoded_coordinates : k \in DOMAIN examples}

\* C15: run_inference puts out exactly one example for each encoded
\* coordinates of its input, and its score is the mean of the scores the
\* model gives to the input examples with these coordinates.
C15_OneOutputPerCoordinatesWithMeanScore ==
  InferenceDone =>
    /\ BagCardinality(scored) = Cardinality(Coordinates)
    /\ \A c \in Coordinates :
         \E o \in BagToSet(scored) :
           /\ o["encoded_coordinates"] = c
           /\ o[score_feature][1] * Cardinality(ExamplesAt(c))
                = SumOver(ExamplesAt(c),
                          [k \in ExamplesAt(c) |->
                            id_to_score[examples[k].int64_id]])

DistinctCoordinates ==
  \A i, j \in DOMAIN examples :
    i # j => examples[i].encoded_coordinates # examples[j].encoded_coordinates

\* o is the input example e with the score the model gives to e
ScoredCopy(o, e) ==
  /\ DOMAIN o = (DOMAIN e) \cup {score_feature}
  /\ \A n \in DOMAIN e : o[n] = e[n]
  /\ o[score_feature] = <<id_to_score[e.int64_id]>>

\* C16: when the input examples have distinct encoded coordinates, every
\* output is the copy of an input example with the score of that example
\* added, no input example is put out twice, and a finished run has put out
\* as many examples as it was handed.
C16_EachInputScoredWithItsOwnScore ==
  DistinctCoordinates =>
    /\ \A o \in BagToSet(scored) :
         /\ CopiesIn(o, scored) = 1
         /\ \E k \in DOMAIN examples : ScoredCopy(o, examples[k])
    /\ InferenceDone => BagCardinality(scored) = Len(examples)

\* A finished run over MaxExamples examples with distinct coordinates has
\* scored a batch of several examples.
C16_Witness ==
  /\ InferenceDone
  /\ DistinctCoordinates
  /\ Len(examples) = MaxExamples
  /\ BagCardinality(scored) = MaxExamples
  /\ \E call \in BagToSet(calls) : Len(call.batch) >= 2

\* how often the example e was handed to predict_scores
Occurrences(e) ==
  SumOver(BagToSet(calls),
          [call \in BagToSet(calls) |->
            CopiesIn(call, calls)
              * Cardinality({p \in DOMAIN call.batch : call.batch[p] = e})])

\* C17: every batch handed to predict_scores holds at most batch_size
\* examples, no input example is handed to it twice, and a finished run has
\* handed every input example to it exactly once.
C17_BatchesPartitionTheInput ==
  /\ \A call \in BagToSet(calls) : Len(call.batch) <= batch_size
  /\ \A k \in DOMAIN examples : Occurrences(examples[k]) <= 1
  /\ InferenceDone =>
       \A k \in DOMAIN examples : Occurrences(examples[k]) = 1

\* A finished run whose input is not a multiple of batch_size has scored a
\* full batch and a smaller one.
C17_Witness ==
  /\ InferenceDone
  /\ batch_size >= 2
  /\ Len(examples) % batch_size # 0
  /\ \E call \in BagToSet(calls) : Len(call.batch) = batch_size
  /\ \E call \in BagToSet(calls) : Len(call.batch) < batch_size

\* C18: every call of predict_scores was made on a model that setup had
\* prepared on that worker, and none has raised.
C18_PreparedBeforePredict ==
  \A call \in BagToSet(calls) :
    /\ call.prepared
    /\ setup_done[call.worker]
    /\ ~call.raised

\* Every worker has scored a batch.
C18_Witness ==
  \A w \in Workers :
    \E call \in BagToSet(calls) : call.worker = w /\ call.prepared

(***************************************************************************)
(* Properties of TF2InferenceModel.predict_scores, stated on SpecTF2       *)
(***************************************************************************)
\* the image the model is to see for a feature of an example
ImageOrBlank(example, feature) ==
  IF feature \in DOMAIN example
    THEN decode_and_resize_image(example[feature][1], ImageSize)
    ELSE Zeros(ImageSize)

\* the array holds, for every pixel, first the channels of the feature pre
\* and then those of the feature post, or those of post only
HoldsPrePost(array, example, pre, post) ==
  /\ array.rows = ImageSize
  /\ array.cols = ImageSize
  /\ \A r \in 1..ImageSize, c \in 1..ImageSize :
       IF arg.post_image_only
         THEN /\ Len(array.px[r][c]) = 3
              /\ array.px[r][c] = ImageOrBlank(example, post).px[r][c]
         ELSE /\ Len(array.px[r][c]) = 6
              /\ SubSeq(array.px[r][c], 1, 3)
                   = ImageOrBlank(example, pre).px[r][c]
              /\ SubSeq(array.px[r][c], 4, 6)
                   = ImageOrBlank(example, post).px[r][c]

\* the call returned one score per example, in batch order, for the inputs
\* the claim describes
OneScorePerExample ==
  /\ ~ret[1].raised
  /\ Len(ret[1].scores) = Len(arg.batch)
  /\ Len(ret[1].model_input.small_image) = Len(arg.batch)
  /\ Len(ret[1].model_input.large_image) = Len(arg.batch)
  /\ \A k \in DOMAIN arg.batch :
       /\ HoldsPrePost(ret[1].model_input.small_image[k], arg.batch[k],
                       "pre_image_png", "post_image_png")
       /\ HoldsPrePost(ret[1].model_input.large_image[k], arg.batch[k],
                       "pre_image_png_large", "post_image_png_large")
       /\ ret[1].scores[k]
            = KerasModel([small_image |->
                            <<ret[1].model_input.small_image[k]>>,
                          large_image |->
                            <<ret[1].model_input.large_image[k]>>]).main[1][2]

KnownClasses ==
  {SubSeq(arg.labels_to_classes[k], 1, 1) :
     k \in {j \in DOMAIN arg.labels_to_classes :
              Len(arg.labels_to_classes[j]) = 3}}

\* the rows whose label is a class name that labels_to_classes lacks
UnknownRows ==
  {k \in DOMAIN arg.rows :
     /\ arg.rows[k].label.str # <<>>
     /\ arg.rows[k].label.str \notin KnownClasses}

\* C20: with labels_to_classes given, read_labels_file returns, and its
\* list holds no tuple for a row whose label is a class name that is not
\* in labels_to_classes.
C20_UnknownClassRowIsDropped ==
  (/\ ret # <<>>
   /\ arg.labels_to_classes # <<>>
   /\ \A k \in DOMAIN arg.labels_to_classes :
        ~ParseEntry(arg.labels_to_classes[k]).raised) =>
    /\ ~ret[1].raised
    /\ \A n \in DOMAIN ret[1].coordinates :
         \A k \in UnknownRows : ret[1].coordinates[n][1] # arg.rows[k].x

(***************************************************************************)
(* Properties of the configuration checks, stated on SpecConfig            *)
(***************************************************************************)
\* the texts of the model that are numbers
NumericTexts == {<<"0">>, <<"1">>}

\* the entry has no '=', or the text after its '=' is not a number
BadEntry(entry) ==
  \/ "=" \notin {entry[k] : k \in DOMAIN entry}
  \/ /\ Cardinality({k \in DOMAIN entry : entry[k] = "="}) = 1
     /\ \E k \in DOMAIN entry :
          entry[k] = "=" /\ SubSeq(entry, k + 1, Len(entry)) \notin NumericTexts

MissingCloudParameter ==
  /\ arg.fn = "generate_examples_pipeline"
  /\ arg.use_dataflow
  /\ (arg.cloud_project = <<>> \/ arg.cloud_region = <<>>)

BadGdalSetting ==
  /\ arg.fn = "parse_gdal_env"
  /\ \E k \in DOMAIN arg.settings :
       "=" \notin {arg.settings[k][j] : j \in DOMAIN arg.settings[k]}

BadLabelsToClasses ==
  /\ arg.fn = "read_labels_file"
  /\ \E k \in DOMAIN arg.labels_to_classes :
       BadEntry(arg.labels_to_classes[k])

\* C21: a configuration error raises before any data is read or written:
\* generate_examples_pipeline with use_dataflow and without cloud_project
\* or cloud_region raises with no effect at all; parse_gdal_env raises on a
\* setting without '='; read_labels_file raises on an entry of
\* labels_to_classes without '=' or with a class that is not a number, and
\* the label file has not been read.
C21_ConfigurationErrorsFailFast ==
  ret # <<>> =>
    /\ MissingCloudParameter => (ret[1].raised /\ ret[1].effects = <<>>)
    /\ BadGdalSetting => ret[1].raised
    /\ BadLabelsToClasses => (ret[1].raised /\ ~ret[1].file_read)

C21_Witness ==
  /\ ret # <<>>
  /\ BadLabelsToClasses
  /\ ~BadEntry(arg.labels_to_classes[1])
  /\ arg.rows # <<>>
  /\ ret[1].raised
  /\ ~ret[1].file_read

(***************************************************************************)
(* Properties of the ParDo on several workers, stated on SpecWorkers       *)
(***************************************************************************)
\* every group has been processed to its end
AllProcessed ==
  /\ claimed = arg
  /\ \A w \in Workers : ~worker_state[w].busy

\* the sum of the cells of the workers 1..n for a counter
RECURSIVE SumCells(_, _)
SumCells(name, n) ==
  IF n = 0 THEN 0 ELSE worker_state[n].counters[name] + SumCells(name, n - 1)

Totals == [name \in DOMAIN NoCounts |-> SumCells(name, NumWorkers)]

\* what process yields and counts for a group, taken on its own
Alone(group) == process(group.example_id, group.features)

RECURSIVE BagOfGroups(_)
BagOfGroups(groups) ==
  IF groups = {} THEN EmptyBag
  ELSE SeqToBag(Alone(CHOOSE g \in groups : TRUE).yielded)
         (+) BagOfGroups(groups \ {CHOOSE g \in groups : TRUE})

RECURSIVE CountOfGroups(_, _)
CountOfGroups(groups, name) ==
  IF groups = {} THEN 0
  ELSE Alone(CHOOSE g \in groups : TRUE).inc[name]
         + CountOfGroups(groups \ {CHOOSE g \in groups : TRUE}, name)

\* the emitted Examples that carry the key of the group
EmittedFor(group) ==
  {e \in BagToSet(large_examples) :
     e["encoded_coordinates"] = group.example_id}

\* C22: whatever workers took the groups and however their steps
\* interleaved, once every group is processed the bag of the emitted
\* Examples and the sums of the four counters over the workers are those
\* of the groups processed one by one, and the Examples with the key of a
\* group are those process yields for that group alone.
C22_GroupsAreIndependent ==
  AllProcessed =>
    /\ large_examples = BagOfGroups(arg)
    /\ \A name \in DOMAIN NoCounts :
         Totals[name] = CountOfGroups(arg, name)
    /\ \A group \in arg :
         \A e \in EmittedFor(group) :
           CopiesIn(e, large_examples)
             = CopiesIn(e, SeqToBag(Alone(group).yielded))

C22_Witness ==
  /\ AllProcessed
  /\ Cardinality(arg) >= 3
  /\ \A w \in 1..2 : worker_state[w].counters # NoCounts
  /\ Totals.example > 0
  /\ Totals.bad > 0
  /\ worker_state[1].counters # Totals

(***************************************************************************)
(* Properties of _center_crop, stated on SpecCrop                          *)
(***************************************************************************)
\* the crop origin of the contract, 0-based
OriginRow == (arg.image.rows \div 2) - (arg.crop_size \div 2)
OriginCol == (arg.image.cols \div 2) - (arg.crop_size \div 2)

CropFits ==
  arg.crop_size <= arg.image.rows /\ arg.crop_size <= arg.image.cols

\* C23: with size <= rows and size <= cols, _center_crop returns the
\* size x size sub-array with the origin (rows//2 - size//2,
\* cols//2 - size//2), every pixel unchanged.
C23_ExactCenterCrop ==
  (ret # <<>> /\ CropFits) =>
    /\ ~ret[1].raised
    /\ ret[1].value.rows = arg.crop_size
    /\ ret[1].value.cols = arg.crop_size
    /\ \A r \in 1..arg.crop_size : \A c \in 1..arg.crop_size :
         ret[1].value.px[r][c] = arg.image.px[OriginRow + r][OriginCol + c]

C23_Witness ==
  /\ ret # <<>>
  /\ CropFits
  /\ arg.image.rows % 2 = 1
  /\ arg.image.cols % 2 = 0
  /\ arg.crop_size = 2
  /\ OriginCol > 0
  /\ ret[1].value.px[1][1] = <<OriginRow + 1, OriginCol + 1, 0>>

\* C24: with a crop size larger than the rows or the columns of the image,
\* _center_crop raises.
C24_OversizedCropRaises ==
  (ret # <<>> /\ ~CropFits) => ret[1].raised

(***************************************************************************)
(* Properties of the order of the steps of a pair, of the order of the     *)
(* pairs and of the counters, stated on Spec and on SpecOrder              *)
(***************************************************************************)
\* the center crops of the pair p of the latest group, the after crop
\* taken from the aligned image
PairBeforeCrop(p) ==
  _center_crop(last.result.before_images[last.result.pairs[p][1]].image,
               ExamplePatchSize)

PairAfterCrop(p) ==
  _center_crop(
    align_after_image(
      last.result.before_images[last.result.pairs[p][1]].image,
      last.result.after_images[last.result.pairs[p][2]].image),
    ExamplePatchSize)

\* the images _mostly_blank is to see for the pairs 1..k, in order: the
\* before crop of each pair, and its after crop if the before crop is not
\* blank
RECURSIVE BlankChecks(_)
BlankChecks(k) ==
  IF k = 0 THEN <<>>
  ELSE BlankChecks(k - 1)
         \o (IF _mostly_blank(PairBeforeCrop(k))
               THEN <<PairBeforeCrop(k)>>
               ELSE <<PairBeforeCrop(k), PairAfterCrop(k)>>)

BeforeBlankPairs ==
  {p \in DOMAIN last.result.pairs : _mostly_blank(PairBeforeCrop(p))}

BothBlankPairs ==
  {p \in BeforeBlankPairs : _mostly_blank(PairAfterCrop(p))}

\* C25: with before images, every pair is aligned first, then its before
\* crop is checked, then its after crop: a pair with a blank before crop is
\* rejected for the before patch and its after crop is never handed to
\* _mostly_blank, so the before-blank counter grows by the number of such
\* pairs and the after-blank counter by the number of the pairs whose
\* before crop is not blank and whose after crop is.
C25_BeforeCheckedBeforeAfter ==
  (last.called /\ use_before_image /\ last.result.pairs # <<>>) =>
    /\ last.result.aligned = Len(last.result.pairs)
    /\ \A p \in BeforeBlankPairs : last.result.statuses[p] = "before_blank"
    /\ last.result.blank_args = BlankChecks(Len(last.result.pairs))
    /\ last.result.inc.before_blank = Cardinality(BeforeBlankPairs)
    /\ last.result.inc.after_blank =
         Cardinality({p \in DOMAIN last.result.pairs :
                        /\ p \notin BeforeBlankPairs
                        /\ _mostly_blank(PairAfterCrop(p))})
    /\ before_patch_blank_count
         = last.prev.before_blank + Cardinality(BeforeBlankPairs)

C25_Witness ==
  /\ last.called
  /\ use_before_image
  /\ BothBlankPairs # {}
  /\ last.result.inc.before_blank = Cardinality(BothBlankPairs)
  /\ last.result.inc.after_blank = 0

IsBeforeFragment(feature) == feature.before_image # <<>>
IsAfterFragment(feature) == feature.after_image # <<>>

\* the before and the after images of the latest group, in the order of
\* its fragments
BeforeInOrder ==
  [k \in DOMAIN SelectSeq(last.features, IsBeforeFragment) |->
    SelectSeq(last.features, IsBeforeFragment)[k].before_image[1]]

AfterInOrder ==
  [k \in DOMAIN SelectSeq(last.features, IsAfterFragment) |->
    SelectSeq(last.features, IsAfterFragment)[k].after_image[1]]

\* the before images of the pairs: without before images, one blank image
UsedBefore ==
  IF use_before_image THEN BeforeInOrder
  ELSE <<[id |-> "", image |-> Zeros(LargePatchSize)]>>

\* the pair of the b-th before image and the a-th after image is emitted
Survives(b, a) ==
  /\ use_before_image =>
       ~_mostly_blank(_center_crop(UsedBefore[b].image, ExamplePatchSize))
  /\ ~_mostly_blank(_center_crop(PairAfter(UsedBefore[b].image,
                                           AfterInOrder[a].image),
                                 ExamplePatchSize))

\* the pairs (b, a) in the order of the claim, before images outermost:
\* the pairs with a before image below b, then (b, 1..a)
RECURSIVE InOrder(_, _)
InOrder(b, a) ==
  IF b = 0 THEN <<>>
  ELSE IF a = 0 THEN InOrder(b - 1, Len(AfterInOrder))
  ELSE InOrder(b, a - 1) \o <<<<b, a>>>>

SurvivingPair(pair) == Survives(pair[1], pair[2])

Survivors ==
  SelectSeq(InOrder(Len(UsedBefore), Len(AfterInOrder)), SurvivingPair)

\* C26: the Examples of a group are emitted in the order of the pairs
\* (b0,a0), (b0,a1), ..., (b1,a0), ..., the before and the after images
\* each in the order of the fragments of the group, without the pairs that
\* are rejected.
C26_EmittedInPairOrder ==
  (last.called /\ last.result.pairs # <<>>) =>
    /\ last.result.after_images = AfterInOrder
    /\ use_before_image => last.result.before_images = BeforeInOrder
    /\ last.result.pairs = InOrder(Len(UsedBefore), Len(AfterInOrder))
    /\ Len(Yielded) = Len(Survivors)
    /\ \A n \in DOMAIN Yielded :
         /\ Yielded[n]["pre_image_id"] = UsedBefore[Survivors[n][1]].id
         /\ Yielded[n]["post_image_id"] = AfterInOrder[Survivors[n][2]].id
         /\ Yielded[n]["pre_image_png_large"]
              = encode_png(UsedBefore[Survivors[n][1]].image)
         /\ Yielded[n]["post_image_png_large"]
              = encode_png(PairAfter(UsedBefore[Survivors[n][1]].image,
                                     AfterInOrder[Survivors[n][2]].image))

C26_Witness ==
  /\ last.called
  /\ use_before_image
  /\ Len(BeforeInOrder) = 2
  /\ Len(AfterInOrder) = 2
  /\ BeforeInOrder[1].id = "b1"
  /\ Len(Yielded) = 2
  /\ Yielded[1]["pre_image_id"] = "b1"
  /\ Yielded[2]["pre_image_id"] = "b0"
  /\ Yielded[1]["post_image_id"] = Yielded[2]["post_image_id"]

\* C27: after any calls of process, the rejected counter is the sum of the
\* before-blank counter and the after-blank counter, and so are the
\* increments of every call.
C27_RejectedIsSumOfBlankCounters ==
  /\ bad_example_count = before_patch_blank_count + after_patch_blank_count
  /\ last.result.inc.bad
       = last.result.inc.before_blank + last.result.inc.after_blank
  /\ last.called =>
       /\ bad_example_count = last.prev.bad + last.result.inc.bad
       /\ before_patch_blank_count
            = last.prev.before_blank + last.result.inc.before_blank
       /\ after_patch_blank_count
            = last.prev.after_blank + last.result.inc.after_blank

\* A group was rejected as a whole after a pair of an earlier group was
\* rejected, and both blank counters have grown.
C27_Witness ==
  /\ last.called
  /\ last.result.pairs = <<>>
  /\ last.result.inc.bad = 1
  /\ last.prev.bad >= 1
  /\ before_patch_blank_count >= 1
  /\ after_patch_blank_count >= 1

\* the latest group passes the checks of lines 271-280
PassesGroupChecks ==
  /\ last.called
  /\ AfterInOrder # <<>>
  /\ use_before_image => BeforeInOrder # <<>>

NumScalarFragments ==
  Cardinality({k \in DOMAIN last.features :
                 last.features[k].scalar_features # <<>>})

\* C28: for a group that passes the group checks, every pair of the cross
\* product is counted once: the generated counter grows by the number of
\* the emitted Examples, and the generated and the rejected counter grow
\* together by (before images used) x (after images), whatever the number
\* of scalar fragments; the generated counter is the number of the
\* Examples emitted so far.
C28_EveryPairCountedOnce ==
  /\ example_count = BagCardinality(large_examples)
  /\ PassesGroupChecks =>
       /\ last.result.inc.example = Len(Yielded)
       /\ last.result.inc.example + last.result.inc.bad
            = Len(UsedBefore) * Len(AfterInOrder)
       /\ example_count = last.prev.example + Len(Yielded)
       /\ bad_example_count + example_count
            = last.prev.bad + last.prev.example
                + Len(UsedBefore) * Len(AfterInOrder)

C28_Witness ==
  /\ PassesGroupChecks
  /\ use_before_image
  /\ NumScalarFragments = 2
  /\ Len(UsedBefore) * Len(AfterInOrder) = 2
  /\ example_count = 1
  /\ bad_example_count = 1

\* the image a PNG of three channels holds
PngImage(png) ==
  [rows |-> png.height, cols |-> png.width,
   px |-> [r \in 1..png.height |-> [c \in 1..png.width |->
            [k \in 1..Channels |->
              png.data[((r - 1) * png.width + (c - 1)) * Channels + k]]]]]

\* the after images the latest group was handed, as read from the rasters
ReadAfter == {AfterInOrder[k] : k \in DOMAIN AfterInOrder}

\* the example holds the after image a, aligned to the before image of
\* the example, as its large after image
HoldsAligned(example, a) ==
  /\ example["post_image_id"] = a.id
  /\ a.image.rows = LargePatchSize + 2 * _MAX_DISPLACEMENT
  /\ a.image.cols = LargePatchSize + 2 * _MAX_DISPLACEMENT
  /\ \E i, j \in 0..(2 * _MAX_DISPLACEMENT) :
       PngImage(example["post_image_png_large"])
         = [rows |-> LargePatchSize, cols |-> LargePatchSize,
            px |-> [r \in 1..LargePatchSize |-> [c \in 1..LargePatchSize |->
                     a.image.px[i + r][j + c]]]]
  /\ example["post_image_png_large"]
       = encode_png(align_after_image(
                      PngImage(example["pre_image_png_large"]), a.image))

\* the example holds the after image a as it was read
HoldsUnaligned(example, a) ==
  /\ example["post_image_id"] = a.id
  /\ a.image.rows = LargePatchSize
  /\ a.image.cols = LargePatchSize
  /\ example["post_image_png_large"] = encode_png(a.image)

\* C29: in every emitted Example the large after image has the height and
\* the width of the large before image, large_patch_size; with before
\* images it is the aligned crop of an after patch of large_patch_size +
\* 2 * _MAX_DISPLACEMENT pixels, without them the after patch of
\* large_patch_size pixels as it was read; the small after image is the
\* center crop of the large after image.
C29_AfterLargeHasBeforeShape ==
  last.called =>
    \A n \in DOMAIN Yielded :
      /\ Yielded[n]["post_image_png_large"].height = LargePatchSize
      /\ Yielded[n]["post_image_png_large"].width = LargePatchSize
      /\ Yielded[n]["pre_image_png_large"].height = LargePatchSize
      /\ Yielded[n]["pre_image_png_large"].width = LargePatchSize
      /\ Yielded[n]["post_image_png"]
           = encode_png(_center_crop(
                          PngImage(Yielded[n]["post_image_png_large"]),
                          ExamplePatchSize))
      /\ \E a \in ReadAfter :
           IF use_before_image THEN HoldsAligned(Yielded[n], a)
           ELSE HoldsUnaligned(Yielded[n], a)

\* An Example was emitted whose after patch held the content two
\* displacements away from the corner.
C29_Witness ==
  /\ last.called
  /\ use_before_image
  /\ \E n \in DOMAIN Yielded :
       \E a \in ReadAfter :
         /\ HoldsAligned(Yielded[n], a)
         /\ a.image = Embed(Tex(LargePatchSize), 2 * _MAX_DISPLACEMENT)
         /\ Yielded[n]["post_image_png_large"]
              = encode_png(Tex(LargePatchSize))

====
